---- MODULE Spec2Model ----
(***************************************************************************)
(* Model of the universal bulk ingestor (scripts/surveyor/bulk_ingest.py)  *)
(* of HospitalPriceApp: the value parser, the code resolver, the setting   *)
(* resolver and the tall / wide / JSON ingestion loops over the store of   *)
(* items and prices (src/database.py).                                     *)
(*                                                                         *)
(* Python strings are sequences of one-character strings, so that strip,   *)
(* replace, lower, substring search, len, isdigit and float are computed   *)
(* and not assumed.  Python values are tagged records: None / NaN, str,    *)
(* JSON number (with its str() rendering) and float.                       *)
(***************************************************************************)
EXTENDS Integers, Sequences, FiniteSets, TLC

VARIABLES
    arg,            \* input of the pure function under study
    ret,            \* its result, "pending" until the function was applied
    dataFile,       \* hospital -> the data file found for it on disk
    configOf,       \* hospital -> its mapping descriptor (config)
    hospital_name,  \* hospital -> its name in the manifest
    main,           \* locals of main(): args, manifest, to_ingest, i
    CONFIG_MANIFEST, \* content of the file data/configs/config_manifest.json
    proc,           \* hospital -> the main() that ingests it next to the others
    lock,           \* which of these holds the write lock of the database
    items,          \* rows of table items as the session sees them
    prices,         \* rows of table prices as the session sees them
    cItems,         \* committed rows of table items
    cPrices,        \* committed rows of table prices
    pc,             \* position of main(): "idle", "rows" or "finish"
    cur,            \* hospital being ingested
    idx,            \* index of the next row / record of the file
    item_cache,     \* (code, description, setting) -> item id
    price_dedupe,   \* set of (item_id, payer, plan, amount, notes)
    items_created,  \* counter of the running ingestion
    prices_created, \* counter of the running ingestion
    payer_style,    \* local payer_style of ingest_csv_tall
    runs,           \* number of ingest_hospital calls so far
    last,           \* outcome of the latest finished ingest_hospital call
    prev,           \* outcome of the call before it
    skipped         \* rows the running ingestion skipped without any effect

vars == <<arg, ret, dataFile, configOf, hospital_name, main, CONFIG_MANIFEST, proc, lock, items, prices, cItems, cPrices, pc, cur,
          idx, item_cache, price_dedupe, items_created, prices_created,
          payer_style, runs, last, prev, skipped>>

-----------------------------------------------------------------------------
(* Bounds *)

MaxLen == 3        \* longest generated raw cell
MaxCodeCols == 2   \* code columns of a generated code-resolver row
MaxRows == 2       \* rows of the first hospital's file
MaxRowsOther == 1  \* rows of the second hospital's file
MaxRuns == 3       \* ingest_hospital calls of one behaviour

-----------------------------------------------------------------------------
(* Python values *)

None == [t |-> "null"]
Str(s) == [t |-> "str", v |-> s]
JNum(s) == [t |-> "num", v |-> s]
Dict(d) == [t |-> "dict", d |-> d]
List(l) == [t |-> "list", l |-> l]

\* the element of a one-element set; Only({e(x) : x \in {v}}) is e(v) with
\* v evaluated once
Only(S) == CHOOSE r \in S : TRUE

\* pandas.isna on a scalar: None and NaN
isna(x) == x.t = "null"

\* str(x) of a str or of a JSON number
str(x) == x.v

\* truthiness of a Python value: None, '' and 0 are false
RECURSIVE IsZeroText(_)
IsZeroText(s) ==
    IF s = <<>> THEN TRUE
    ELSE Head(s) \in {"0", "."} /\ IsZeroText(Tail(s))

truthy(x) ==
    CASE x.t = "null" -> FALSE
      [] x.t = "str" -> x.v # <<>>
      [] x.t = "num" -> ~IsZeroText(x.v)
      [] x.t = "list" -> x.l # <<>>
      [] x.t = "dict" -> DOMAIN x.d # {}
      [] OTHER -> TRUE

-----------------------------------------------------------------------------
(* Python string methods *)

DigitChars == {"0", "1", "2", "3", "4", "5", "6", "7", "8", "9"}

UpperChars == <<"A", "B", "C", "D", "E", "F", "G", "H", "I", "J", "K", "L", "M",
                "N", "O", "P", "Q", "R", "S", "T", "U", "V", "W", "X", "Y", "Z">>

LowerChars == <<"a", "b", "c", "d", "e", "f", "g", "h", "i", "j", "k", "l", "m",
                "n", "o", "p", "q", "r", "s", "t", "u", "v", "w", "x", "y", "z">>

DigitVal(c) ==
    CASE c = "0" -> 0 [] c = "1" -> 1 [] c = "2" -> 2 [] c = "3" -> 3
      [] c = "4" -> 4 [] c = "5" -> 5 [] c = "6" -> 6 [] c = "7" -> 7
      [] c = "8" -> 8 [] c = "9" -> 9

LowerChar(c) ==
    IF \E i \in 1..26 : UpperChars[i] = c
    THEN LowerChars[CHOOSE i \in 1..26 : UpperChars[i] = c]
    ELSE c

lower(s) == [i \in 1..Len(s) |-> LowerChar(s[i])]

isalphaChar(c) ==
    \E i \in 1..26 : UpperChars[i] = c \/ LowerChars[i] = c

\* str.isdigit(): non-empty and digits only
isdigit(s) == s # <<>> /\ \A i \in 1..Len(s) : s[i] \in DigitChars

RECURSIVE lstrip(_)
lstrip(s) == IF s # <<>> /\ Head(s) = " " THEN lstrip(Tail(s)) ELSE s

\* index of the last character of s[1..n] that is no blank, 0 if none
RECURSIVE LastNonBlank(_, _)
LastNonBlank(s, n) ==
    IF n > 0 /\ s[n] = " " THEN LastNonBlank(s, n - 1) ELSE n

rstrip(s) == SubSeq(s, 1, LastNonBlank(s, Len(s)))

strip(s) == rstrip(lstrip(s))

\* s.replace(c, '')
remove(s, c) == SelectSeq(s, LAMBDA ch : ch # c)

\* p in s
contains(s, p) ==
    \E i \in 0..(Len(s) - Len(p)) : SubSeq(s, i + 1, i + Len(p)) = p

-----------------------------------------------------------------------------
(* float(): unsigned decimal text "ddd", "ddd.dd", ".d", "d." with blanks   *)
(* around it.  A float is kept as mantissa m and number of decimals e with  *)
(* no trailing zero decimal, so that equal numbers are equal values.        *)

\* the number written by the digits s[1..n]
RECURSIVE DigitsUpTo(_, _)
DigitsUpTo(s, n) ==
    IF n = 0 THEN 0 ELSE DigitsUpTo(s, n - 1) * 10 + DigitVal(s[n])

DigitsToInt(s) == DigitsUpTo(s, Len(s))

RECURSIVE Float(_, _)
Float(m, e) ==
    IF e > 0 /\ m % 10 = 0 THEN Float(m \div 10, e - 1)
    ELSE [t |-> "float", m |-> m, e |-> e]

RECURSIVE Pow10(_)
Pow10(e) == IF e = 0 THEN 1 ELSE 10 * Pow10(e - 1)

AllDigits(s) == \A i \in 1..Len(s) : s[i] \in DigitChars

\* float(s): [ok |-> FALSE] stands for ValueError
float(s) ==
    LET t == strip(s)
        dots == {i \in 1..Len(t) : t[i] = "."}
    IN  IF Cardinality(dots) > 1 THEN [ok |-> FALSE]
        ELSE IF dots = {}
             THEN IF t # <<>> /\ AllDigits(t)
                  THEN [ok |-> TRUE, val |-> Float(DigitsToInt(t), 0)]
                  ELSE [ok |-> FALSE]
        ELSE LET d == CHOOSE i \in dots : TRUE
                 ip == SubSeq(t, 1, d - 1)
                 fp == SubSeq(t, d + 1, Len(t))
             IN  IF AllDigits(ip) /\ AllDigits(fp) /\ Len(ip) + Len(fp) > 0
                 THEN [ok |-> TRUE, val |-> Float(DigitsToInt(ip \o fp), Len(fp))]
                 ELSE [ok |-> FALSE]

\* val >= threshold for an integer threshold
FloatGe(val, threshold) == val.m \div Pow10(val.e) >= threshold

-----------------------------------------------------------------------------
(* Value parser *)

PLACEHOLDER_THRESHOLD == 99999999

FORMULA_PATTERNS ==
    << <<"f", "o", "r", "m", "u", "l", "a">>,
       <<"a", "l", "g", "o", "r", "i", "t", "h", "m">>,
       <<"s", "e", "e", " ", "c", "o", "n", "t", "r", "a", "c", "t">>,
       <<"v", "a", "r", "i", "e", "s">>,
       <<"c", "a", "l", "l", " ", "f", "o", "r", " ", "p", "r", "i", "c", "i", "n", "g">> >>

\* dict.get(key, default)
Get(d, key, default) == IF key \in DOMAIN d THEN d[key] ELSE default

\* a boundary test that lets the threshold itself through: parse_price with
\* it in place of IsPlaceholder breaks C10
IsAboveThreshold(val, threshold) == val.m \div Pow10(val.e) > threshold

\* the boundary test of parse_price
IsPlaceholder(val, threshold) == FloatGe(val, threshold)

\* the exception that escapes parse_price
ValueError == <<"ValueError">>

\* str(x) of a raw value; the repr of a dict or list is some text that is
\* no number, not blank and holds no formula pattern
s_repr == <<"{", ".", ".", ".", "}">> \o <<"!">>

PriceText(x) == IF x.t \in {"dict", "list"} THEN s_repr ELSE x.v

\* "if pd.isna(price_str)": pd.isna of a list is an array, whose truth value
\* is that of its element when it has one and an error when it has several
\* (an empty list is outside the inputs); pd.isna of a dict is False
PriceIsna(price_str) ==
    CASE price_str.t = "null" -> "true"
      [] price_str.t = "list" /\ Len(price_str.l) = 1 ->
            (IF price_str.l[1].t = "null" THEN "true" ELSE "false")
      [] price_str.t = "list" -> "raise"
      [] OTHER -> "false"

\* parse_price(price_str, skip_rules): <<amount, note>>, or ValueError
parse_price(price_str, skip_rules) ==
    IF PriceIsna(price_str) = "raise" THEN ValueError
    ELSE IF PriceIsna(price_str) = "true" \/ strip(PriceText(price_str)) = <<>>
    THEN <<None, None>>
    ELSE LET price_str_clean == strip(PriceText(price_str))
             formula_patterns == Get(skip_rules, "formula_patterns", FORMULA_PATTERNS)
             threshold == Get(skip_rules, "placeholder_threshold", PLACEHOLDER_THRESHOLD)
             f == float(remove(remove(price_str_clean, "$"), ","))
         IN  IF \E i \in 1..Len(formula_patterns) :
                    contains(lower(price_str_clean), lower(formula_patterns[i]))
             THEN <<None, Str(price_str_clean)>>
             ELSE IF ~f.ok THEN <<None, Str(price_str_clean)>>
             ELSE IF IsPlaceholder(f.val, threshold) THEN <<None, None>>
             ELSE <<f.val, None>>

-----------------------------------------------------------------------------
(* Text constants of the source.  A column name is kept as the sequence of  *)
(* its '|'-separated segments, i.e. as col.split('|').                      *)

UNKNOWN == <<"U", "N", "K", "N", "O", "W", "N">>
s_nan == <<"n", "a", "n">>
s_None == <<"N", "o", "n", "e">>
s_CPT == <<"C", "P", "T">>
s_HCPCS == <<"H", "C", "P", "C", "S">>
s_Local == <<"L", "o", "c", "a", "l">>
s_MS_DRG == <<"M", "S", "-", "D", "R", "G">>
s_APR_DRG == <<"A", "P", "R", "-", "D", "R", "G">>
s_NDC == <<"N", "D", "C">>
s_CDM == <<"C", "D", "M">>
s_No_Description ==
    <<"N", "o", " ", "D", "e", "s", "c", "r", "i", "p", "t", "i", "o", "n">>
s_GROSS == <<"G", "R", "O", "S", "S">>
s_DISCOUNTED_CASH ==
    <<"D", "I", "S", "C", "O", "U", "N", "T", "E", "D", "_", "C", "A", "S", "H">>
s_Unknown == <<"U", "n", "k", "n", "o", "w", "n">>

s_code == <<"c", "o", "d", "e">>
s_1 == <<"1">>
s_2 == <<"2">>
s_3 == <<"3">>
s_type == <<"t", "y", "p", "e">>
s_description == <<"d", "e", "s", "c", "r", "i", "p", "t", "i", "o", "n">>
s_setting == <<"s", "e", "t", "t", "i", "n", "g">>
s_billing_class == <<"b", "i", "l", "l", "i", "n", "g", "_", "c", "l", "a", "s", "s">>
s_payer_name == <<"p", "a", "y", "e", "r", "_", "n", "a", "m", "e">>
s_plan_name == <<"p", "l", "a", "n", "_", "n", "a", "m", "e">>
s_standard_charge ==
    <<"s", "t", "a", "n", "d", "a", "r", "d", "_", "c", "h", "a", "r", "g", "e">>
s_standard_charges == s_standard_charge \o <<"s">>
s_negotiated_dollar ==
    <<"n", "e", "g", "o", "t", "i", "a", "t", "e", "d", "_", "d", "o", "l", "l", "a", "r">>
s_estimated_amount ==
    <<"e", "s", "t", "i", "m", "a", "t", "e", "d", "_", "a", "m", "o", "u", "n", "t">>
s_gross == <<"g", "r", "o", "s", "s">>
s_discounted_cash ==
    <<"d", "i", "s", "c", "o", "u", "n", "t", "e", "d", "_", "c", "a", "s", "h">>
s_min == <<"m", "i", "n">>
s_max == <<"m", "a", "x">>
s_price == <<"p", "r", "i", "c", "e">>
s_negotiated == <<"n", "e", "g", "o", "t", "i", "a", "t", "e", "d">>
s_estimated == <<"e", "s", "t", "i", "m", "a", "t", "e", "d">>

col_code_1 == <<s_code, s_1>>
col_code_1_type == <<s_code, s_1, s_type>>
col_description == <<s_description>>
col_setting == <<s_setting>>
col_billing_class == <<s_billing_class>>
col_payer_name == <<s_payer_name>>
col_plan_name == <<s_plan_name>>
col_negotiated_dollar == <<s_standard_charge, s_negotiated_dollar>>
col_json_negotiated_dollar == <<s_negotiated_dollar>>
col_gross == <<s_standard_charge, s_gross>>
col_discounted_cash == <<s_standard_charge, s_discounted_cash>>
col_standard_charges == <<s_standard_charges>>

EmptyDict == <<>>

DEFAULT_PRIORITY == <<s_CPT, s_HCPCS, s_MS_DRG, s_APR_DRG, s_NDC, s_CDM, s_Local>>

NO_PRIORITY == 999

\* a or b
Or(a, b) == IF truthy(a) THEN a ELSE b

\* str(x) where x may be None (JSON) or NaN (CSV); the repr of a dict or
\* list is some text that is no code, no number and not blank
strOf(x, is_json) ==
    CASE x.t = "null" -> (IF is_json THEN s_None ELSE s_nan)
      [] x.t \in {"dict", "list"} -> s_repr
      [] OTHER -> x.v

-----------------------------------------------------------------------------
(* Code resolver *)

\* priority_map.get(code_type, 999) with priority_map built by enumerate
\* (a repeated scheme keeps its last index) and priority_map['UNKNOWN'] = 999
priority_of(priority, code_type) ==
    IF code_type = UNKNOWN THEN NO_PRIORITY
    ELSE IF \E i \in 1..Len(priority) : priority[i] = code_type
         THEN (CHOOSE i \in 1..Len(priority) :
                  /\ priority[i] = code_type
                  /\ \A j \in (i + 1)..Len(priority) : priority[j] # code_type) - 1
         ELSE NO_PRIORITY

\* parse_json_value for None, scalars, dicts and lists (text that starts
\* with '[' or '{' is outside the inputs)
parse_json_value(val) == IF isna(val) \/ (val.t \in {"str", "num"} /\ strip(val.v) \in {<<>>, s_nan}) THEN None ELSE val

CodeOfDict(d) ==
    Or(Or(Get(d, "code", None), Get(d, "code_value", None)),
       Get(d, "procedure_code", None))

TypeOfDict(d) ==
    Or(Or(Get(d, "code_type", None), Get(d, "type", None)),
       Get(d, "codeType", None))

\* extract_code_from_value: <<code, code_type>>, each Str(..) or None
extract_code_from_value(val) ==
    LET parsed == parse_json_value(val)
        fromDict(d) ==
            <<Str(strip(str(CodeOfDict(d)))),
              IF truthy(TypeOfDict(d)) THEN Str(strip(str(TypeOfDict(d)))) ELSE None>>
    IN  IF parsed.t = "null" THEN <<None, None>>
        ELSE IF parsed.t = "dict" /\ truthy(CodeOfDict(parsed.d))
             THEN fromDict(parsed.d)
        ELSE IF /\ parsed.t = "list"
                /\ Len(parsed.l) > 0
                /\ parsed.l[1].t = "dict"
                /\ truthy(CodeOfDict(parsed.l[1].d))
             THEN fromDict(parsed.l[1].d)
        ELSE IF parsed.t \in {"str", "num"} THEN <<Str(strip(parsed.v)), None>>
        ELSE <<None, None>>

\* a comparison under which the last candidate always wins: with it in place
\* of Better the resolver depends on the column order (C7)
LastWins(this_priority, best_priority) == TRUE

\* the comparison that lets a candidate replace the best one so far
Better(this_priority, best_priority) == this_priority < best_priority

\* the CPT/HCPCS length validation of a candidate
Validate(code, code_type) ==
    IF code_type \in {s_CPT, s_HCPCS} /\ Len(code) # 5 THEN s_Local ELSE code_type

\* the candidate of column i (1-based) of "for i, col in enumerate(columns)":
\* its code and its scheme after validation, or no candidate (valid FALSE)
\* where the loop body ends in "continue"
Candidate(row, columns, type_columns, is_json, i) ==
    LET col == columns[i]
        code_val == row[col]
        ex == extract_code_from_value(code_val)
        code == IF is_json
                THEN (IF truthy(ex[1]) THEN ex[1].v
                      ELSE IF truthy(code_val) THEN strip(strOf(code_val, TRUE))
                      ELSE <<>>)
                ELSE strip(str(code_val))
        type0 == IF is_json THEN ex[2] ELSE None
        type1 == IF /\ ~truthy(type0)
                    /\ i <= Len(type_columns)
                    /\ truthy(type_columns[i])
                    /\ type_columns[i].v \in DOMAIN row
                 THEN Str(strip(strOf(row[type_columns[i].v], is_json)))
                 ELSE type0
        type2 == IF truthy(type1) THEN type1.v ELSE UNKNOWN
    IN  IF col \notin DOMAIN row THEN [valid |-> FALSE]
        ELSE IF isna(code_val) \/ (code_val.t = "str" /\ strip(code_val.v) = <<>>)
             THEN [valid |-> FALSE]
        ELSE IF code = <<>> \/ code = s_nan THEN [valid |-> FALSE]
        ELSE [valid |-> TRUE, code |-> code, type |-> Validate(code, type2)]

\* one iteration of the loop: the best candidate after column i
CodeStep(row, columns, type_columns, priority, is_json, i, best) ==
    Only({
      IF ~c.valid THEN best
      ELSE IF Better(priority_of(priority, c.type), best.priority)
           THEN [code |-> c.code, type |-> c.type,
                 priority |-> priority_of(priority, c.type)]
      ELSE best :
         c \in {Candidate(row, columns, type_columns, is_json, i)}})

RECURSIVE CodeScan(_, _, _, _, _, _, _)
CodeScan(row, columns, type_columns, priority, is_json, i, best) ==
    IF i > Len(columns) THEN best
    ELSE Only({CodeScan(row, columns, type_columns, priority, is_json, i + 1, b) :
                b \in {CodeStep(row, columns, type_columns, priority, is_json, i, best)}})

\* the format test of the auto-normalization to HCPCS
LooksHCPCS(code) == isalphaChar(code[1]) /\ isdigit(Tail(code))

AutoNormalize(code, code_type) ==
    IF Len(code) = 5
    THEN IF isdigit(code) THEN s_CPT
         ELSE IF LooksHCPCS(code) THEN s_HCPCS
         ELSE code_type
    ELSE code_type

\* the old-style single column branch, taken when there is no column list
LegacyCode(row, config, is_json) ==
    LET code_col == Get(config, "code_column", col_code_1)
        type_col == Get(config, "code_type_column", None)
        code_val == IF code_col \in DOMAIN row THEN row[code_col] ELSE None
        ex == extract_code_from_value(code_val)
        \* NaN is a true value of Python, None is not
        code == IF (IF is_json THEN truthy(code_val) ELSE code_val.t = "null" \/ truthy(code_val))
                   /\ code_col \in DOMAIN row
                THEN strip(strOf(code_val, is_json))
                ELSE UNKNOWN
        code_type == IF truthy(type_col) /\ type_col.v \in DOMAIN row
                     THEN row[type_col.v]
                     ELSE Str(UNKNOWN)
    IN  IF is_json /\ ~isna(code_val) /\ truthy(ex[1])
        THEN <<ex[1].v, Or(ex[2], Str(UNKNOWN))>>
        ELSE <<code, code_type>>

\* extract_code(row, config, is_json): <<code, code_type>>, code a text and
\* code_type a Python value
extract_code(row, config, is_json) ==
    LET code_ext == Get(config, "code_extraction", EmptyDict)
        columns == Get(code_ext, "columns", <<>>)
        type_columns == Get(code_ext, "type_columns", <<>>)
        priority == Get(code_ext, "priority", DEFAULT_PRIORITY)
        auto_normalize == Get(code_ext, "auto_normalize", TRUE)
        best == CodeScan(row, columns, type_columns, priority, is_json, 1,
                         [code |-> UNKNOWN, type |-> UNKNOWN, priority |-> NO_PRIORITY])
    IN  IF columns = <<>> THEN LegacyCode(row, config, is_json)
        ELSE <<best.code,
               Str(IF auto_normalize THEN AutoNormalize(best.code, best.type)
                   ELSE best.type)>>

-----------------------------------------------------------------------------
(* Setting resolver *)

\* "val is not None and str(val).strip()" followed by "return str(val).strip()"
SettingText(val) == strip(strOf(val, TRUE))

\* primary, then fallback, looked up in a nested charge object
NestedSetting(charge_obj, primary, fallback) ==
    IF /\ truthy(primary)
       /\ ~isna(Get(charge_obj, primary.v, None))
       /\ SettingText(charge_obj[primary.v]) # <<>>
    THEN Str(SettingText(charge_obj[primary.v]))
    ELSE IF /\ truthy(fallback)
            /\ ~isna(Get(charge_obj, fallback.v, None))
            /\ SettingText(charge_obj[fallback.v]) # <<>>
         THEN Str(SettingText(charge_obj[fallback.v]))
    ELSE None

extract_setting(row, config, is_json) ==
    LET setting_ext == Get(config, "setting_extraction", EmptyDict)
        primary == Get(setting_ext, "primary", Str(col_setting))
        fallback == Get(setting_ext, "fallback", Str(col_billing_class))
        default == Get(setting_ext, "default", Str(UNKNOWN))
        top == IF truthy(primary) THEN Get(row, primary.v, None) ELSE None
        sc_parsed == parse_json_value(Get(row, col_standard_charges, None))
        nested ==
            IF col_standard_charges \notin DOMAIN row THEN None
            ELSE IF sc_parsed.t = "list" /\ Len(sc_parsed.l) > 0
                 THEN IF sc_parsed.l[1].t = "dict"
                      THEN NestedSetting(sc_parsed.l[1].d, primary, fallback)
                      ELSE None
            ELSE IF sc_parsed.t = "dict"
                 THEN NestedSetting(sc_parsed.d, primary, fallback)
            ELSE None
    IN  IF is_json
        THEN IF /\ ~isna(top)
                /\ SettingText(top) # <<>>
                /\ strOf(top, TRUE) # s_nan
             THEN Str(SettingText(top))
             ELSE IF ~isna(nested) THEN nested ELSE default
        ELSE IF /\ truthy(primary)
                /\ primary.v \in DOMAIN row
                /\ ~isna(row[primary.v])
                /\ strip(str(row[primary.v])) # <<>>
             THEN Str(strip(str(row[primary.v])))
             ELSE IF /\ truthy(fallback)
                     /\ fallback.v \in DOMAIN row
                     /\ ~isna(row[fallback.v])
                     /\ strip(str(row[fallback.v])) # <<>>
                  THEN Str(strip(str(row[fallback.v])))
             ELSE default

-----------------------------------------------------------------------------
(* The store: tables items and prices behind one SQLAlchemy session.        *)

SetMax(S) == CHOOSE x \in S : \A y \in S : y <= x

\* id given by SQLite to a new row of a table (INTEGER PRIMARY KEY rowid)
NextId(table) == IF table = {} THEN 1 ELSE SetMax({r.id : r \in table}) + 1

Item(id, code, code_type, description, hospital_id, setting) ==
    [id |-> id, code |-> code, code_type |-> code_type,
     description |-> description, hospital_id |-> hospital_id,
     setting |-> setting]

Price(id, item_id, payer, plan, amount, notes) ==
    [id |-> id, item_id |-> item_id, payer |-> payer, plan |-> plan,
     amount |-> amount, notes |-> notes]

\* a deletion that finds no row: with it in place of DoomedItems a second
\* run accumulates on top of the first (C1)
NoItems(its, hospital_id) == {}

\* a delete that takes the items of every hospital: with it in place of
\* DoomedItems a failed run empties the other hospitals (C17)
EveryItem(its, hospital_id) == its

\* the rows delete_hospital_data removes from table items
DoomedItems(its, hospital_id) == {i \in its : i.hospital_id = hospital_id}

\* a delete that leaves the offers of the deleted items behind: with it in
\* place of delete_hospital_data the next items that get the freed ids
\* inherit them (C19)
delete_items_only(its, prs, hospital_id) ==
    LET doomed == DoomedItems(its, hospital_id)
    IN  [items |-> its \ doomed, prices |-> prs, commit |-> doomed # {},
         deleted |-> Cardinality(doomed)]

\* delete_hospital_data(session, hospital_id) on the session's view
\* [items, prices]: the view after it, and whether it committed
delete_hospital_data(its, prs, hospital_id) ==
    LET doomed == DoomedItems(its, hospital_id)
        item_ids == {i.id : i \in doomed}
    IN  IF item_ids # {}
        THEN [items |-> its \ doomed,
              prices |-> {p \in prs : p.item_id \notin item_ids},
              commit |-> TRUE,
              deleted |-> Cardinality(item_ids)]
        ELSE [items |-> its, prices |-> prs, commit |-> FALSE, deleted |-> 0]

-----------------------------------------------------------------------------
(* Ingestion loops.  The locals of a running ingestion are the record st:   *)
(* items, prices (session view), item_cache, price_dedupe, items_created,   *)
(* prices_created, payer_style, err (the body raised an exception) and      *)
(* skip (the body ended in "continue").                                     *)

\* '|'.join(col)
RECURSIVE Join(_)
Join(col) ==
    IF col = <<>> THEN <<>>
    ELSE IF Len(col) = 1 THEN col[1]
    ELSE col[1] \o <<"|">> \o Join(Tail(col))

\* token in col, for a token without '|'
ColContains(col, token) == \E i \in 1..Len(col) : contains(col[i], token)

ColLower(col) == [i \in 1..Len(col) |-> lower(col[i])]

UpperChar(c) ==
    IF \E i \in 1..26 : LowerChars[i] = c
    THEN UpperChars[CHOOSE i \in 1..26 : LowerChars[i] = c]
    ELSE c

upper(s) == [i \in 1..Len(s) |-> UpperChar(s[i])]

\* a test that lets 'UNKNOWN' through: with it in place of SkipRow a row
\* without a code creates an item (C6)
SkipEmptyOnly(code) == code = <<>>

\* "if not code or code == 'UNKNOWN': continue"
SkipRow(code) == code = <<>> \/ code = UNKNOWN

\* an offer added without prices_created += 1: with it in place of
\* AddPrice the returned count falls behind the stored offers (C30)
AddPriceUncounted(st, item_id, payer, plan, amount, notes) ==
    LET dedupe_key == <<item_id, payer, plan, amount, notes>>
    IN  IF dedupe_key \in st.price_dedupe THEN st
        ELSE [st EXCEPT
                !.prices = @ \cup {Price(NextId(@), item_id, payer, plan, amount, notes)},
                !.price_dedupe = @ \cup {dedupe_key}]

\* session.add(Price(...)) guarded by the dedupe set
AddPrice(st, item_id, payer, plan, amount, notes) ==
    LET dedupe_key == <<item_id, payer, plan, amount, notes>>
    IN  IF dedupe_key \in st.price_dedupe THEN st
        ELSE [st EXCEPT
                !.prices = @ \cup {Price(NextId(@), item_id, payer, plan, amount, notes)},
                !.price_dedupe = @ \cup {dedupe_key},
                !.prices_created = @ + 1]

\* session.add(Price(...)) of ingest_csv_wide, which keeps no dedupe set
AddPriceWide(st, item_id, payer, plan, amount, notes) ==
    [st EXCEPT
        !.prices = @ \cup {Price(NextId(@), item_id, payer, plan, amount, notes)},
        !.prices_created = @ + 1]

\* an offer is added only "if price_val is not None or price_note is not None"
HasContent(amount, notes) == ~isna(amount) \/ ~isna(notes)

\* in a sequence of offers: parse_price raised at this place
Raises == [raises |-> "ValueError"]

\* adds the offers of the sequence offs, in order, to item item_id, up to
\* the place where parse_price raised
RECURSIVE AddOffers(_, _, _)
AddOffers(st, item_id, offs) ==
    IF offs = <<>> THEN st
    ELSE IF offs[1] = Raises THEN [st EXCEPT !.err = TRUE]
    ELSE Only({AddOffers(s, item_id, Tail(offs)) :
                s \in {IF HasContent(offs[1].amount, offs[1].notes)
                       THEN AddPrice(st, item_id, offs[1].payer, offs[1].plan,
                                     offs[1].amount, offs[1].notes)
                       ELSE st}})

Offer(payer, plan, pp) ==
    IF pp = ValueError THEN Raises
    ELSE [payer |-> payer, plan |-> plan, amount |-> pp[1], notes |-> pp[2]]

\* "get or create item": the state after it and the item id
GetOrCreateItem(st, code, code_type, desc, setting, hospital_id) ==
    LET item_key == <<code, desc, setting>>
        id == NextId(st.items)
    IN  IF item_key \in DOMAIN st.item_cache
        THEN [st |-> st, item_id |-> st.item_cache[item_key]]
        ELSE [st |-> [st EXCEPT
                        !.items = @ \cup {Item(id, code, code_type, desc, hospital_id, setting)},
                        !.item_cache = [k \in DOMAIN @ \cup {item_key} |->
                                           IF k = item_key THEN id ELSE @[k]],
                        !.items_created = @ + 1],
              item_id |-> id]

\* description of a CSV row
CsvDescription(row, config) ==
    LET desc_col == Get(config, "description_column", col_description)
        desc == Get(row, desc_col, Str(s_No_Description))
    IN  IF isna(desc) THEN s_No_Description ELSE strip(str(desc))

\* row.get(col) of a pandas Series, col a configured column or None
RowGet(row, col) ==
    IF truthy(col) /\ col.v \in DOMAIN row THEN row[col.v] ELSE None

\* columns that make ingest_csv_tall switch to header style
header_style_cols(columns) ==
    SelectSeq(columns, LAMBDA col :
        /\ ColContains(col, s_negotiated_dollar) \/ ColContains(col, s_estimated_amount)
        /\ Len(col) >= 2)

\* the payer style a row of ingest_csv_tall is processed with
DetectStyle(style, columns) ==
    IF style = "column" /\ header_style_cols(columns) # <<>> THEN "header" ELSE style

\* a test that takes no segment for a suffix: with it in place of
\* IsReservedSuffix the column '...|Aetna|negotiated_dollar' names a plan (C14)
NoSuffix(seg) == FALSE

IsReservedSuffix(seg) == seg \in {s_negotiated_dollar, s_estimated_amount}

\* sibling_col of ingest_csv_tall
SiblingCol(price_col, sibling) ==
    IF Len(price_col) > 1
    THEN SubSeq(price_col, 1, Len(price_col) - 1) \o sibling
    ELSE sibling

\* note of the last sibling column with a value: with it in place of
\* SiblingNote the order of the descriptor's list is not kept
RECURSIVE LastSiblingNote(_, _, _)
LastSiblingNote(row, price_col, siblings) ==
    IF siblings = <<>> THEN None
    ELSE LET sibling_col == SiblingCol(price_col, siblings[1])
             sibling_val == strip(str(row[sibling_col]))
             later == LastSiblingNote(row, price_col, Tail(siblings))
         IN  IF ~isna(later) THEN later
             ELSE IF /\ sibling_col \in DOMAIN row
                     /\ ~isna(row[sibling_col])
                     /\ sibling_val # <<>>
             THEN Str(Join(siblings[1]) \o <<":", " ">> \o sibling_val)
             ELSE None

\* note of the first sibling column with a value, or None
RECURSIVE SiblingNote(_, _, _)
SiblingNote(row, price_col, siblings) ==
    IF siblings = <<>> THEN None
    ELSE LET sibling_col == SiblingCol(price_col, siblings[1])
             sibling_val == strip(str(row[sibling_col]))
         IN  IF /\ sibling_col \in DOMAIN row
                /\ ~isna(row[sibling_col])
                /\ sibling_val # <<>>
             THEN Str(Join(siblings[1]) \o <<":", " ">> \o sibling_val)
             ELSE SiblingNote(row, price_col, Tail(siblings))

\* offers of the branch "payer_style == 'column'" of ingest_csv_tall
TallColumnOffers(row, price_ext, skip_rules) ==
    LET payer_col == Get(price_ext, "payer_column", Str(col_payer_name))
        plan_col == Get(price_ext, "plan_column", Str(col_plan_name))
        price_col == Get(price_ext, "price_column", Str(col_negotiated_dollar))
        siblings == Get(price_ext, "sibling_columns", <<>>)
        payer == RowGet(row, payer_col)
        plan == RowGet(row, plan_col)
        pp == parse_price(RowGet(row, price_col), skip_rules)
        note == IF isna(pp[1]) /\ isna(pp[2])
                THEN SiblingNote(row, IF isna(price_col) THEN <<>> ELSE price_col.v,
                                 siblings)
                ELSE pp[2]
    IN  IF truthy(payer)
        THEN << Offer(strip(str(payer)),
                      IF truthy(plan) THEN Str(strip(str(plan))) ELSE None,
                      <<pp[1], note>>) >>
        ELSE <<>>

\* raises TypeError: '|' in price_col with price_col None
TallColumnRaises(row, price_ext, skip_rules) ==
    LET payer_col == Get(price_ext, "payer_column", Str(col_payer_name))
        price_col == Get(price_ext, "price_column", Str(col_negotiated_dollar))
        siblings == Get(price_ext, "sibling_columns", <<>>)
    IN  /\ truthy(RowGet(row, payer_col))
        /\ isna(price_col)
        /\ siblings # <<>>

HeaderOffer(row, col, skip_rules) ==
    Offer(IF Len(col) > 1 THEN col[2] ELSE s_Unknown,
          IF Len(col) > 2 /\ ~IsReservedSuffix(col[3]) THEN Str(col[3]) ELSE None,
          parse_price(row[col], skip_rules))

\* the columns the header branch of ingest_csv_tall takes prices from
IsTallPriceCol(col) ==
    ColContains(col, s_negotiated_dollar) \/ ColContains(col, s_estimated_amount)

\* offers of the branch "payer_style == 'header'" of ingest_csv_tall
RECURSIVE TallHeaderOffers(_, _, _)
TallHeaderOffers(row, columns, skip_rules) ==
    IF columns = <<>> THEN <<>>
    ELSE (IF IsTallPriceCol(columns[1])
          THEN <<HeaderOffer(row, columns[1], skip_rules)>>
          ELSE <<>>)
         \o TallHeaderOffers(row, Tail(columns), skip_rules)

\* "Also capture gross and cash prices"
GrossCashOffers(row, price_ext, skip_rules) ==
    LET gross_col == Get(price_ext, "gross_column", Str(col_gross))
        cash_col == Get(price_ext, "cash_column", Str(col_discounted_cash))
    IN  (IF truthy(gross_col) /\ gross_col.v \in DOMAIN row
         THEN <<Offer(s_GROSS, None, parse_price(row[gross_col.v], skip_rules))>>
         ELSE <<>>)
        \o
        (IF truthy(cash_col) /\ cash_col.v \in DOMAIN row
         THEN <<Offer(s_DISCOUNTED_CASH, None, parse_price(row[cash_col.v], skip_rules))>>
         ELSE <<>>)

\* body of "for idx, row in df.iterrows()" of ingest_csv_tall
ingest_csv_tall_row(st, columns, row, config, hospital_id, skip_rules) ==
    LET price_ext == Get(config, "price_extraction", EmptyDict)
        style == DetectStyle(st.payer_style, columns)
    IN  Only({
          IF SkipRow(cc[1]) THEN [st EXCEPT !.skip = TRUE]
          ELSE Only({
                 IF style = "column" /\ TallColumnRaises(row, price_ext, skip_rules)
                 THEN [g.st EXCEPT !.payer_style = style, !.err = TRUE]
                 ELSE AddOffers([g.st EXCEPT !.payer_style = style], g.item_id, offers) :
                    g \in {GetOrCreateItem(st, cc[1], cc[2], desc, setting, hospital_id)},
                    offers \in {(IF style = "column"
                                 THEN TallColumnOffers(row, price_ext, skip_rules)
                                 ELSE TallHeaderOffers(row, columns, skip_rules))
                                \o GrossCashOffers(row, price_ext, skip_rules)}}) :
             cc \in {extract_code(row, config, FALSE)},
             desc \in {CsvDescription(row, config)},
             setting \in {extract_setting(row, config, FALSE)}})

\* the columns ingest_csv_wide takes prices from
IsWidePriceCol(col) ==
    ColContains(ColLower(col), s_standard_charge) \/ ColContains(ColLower(col), s_price)

WideOffer(row, col, skip_rules) ==
    LET reference == Len(col) > 1 /\ lower(col[2]) \in {s_gross, s_discounted_cash, s_min, s_max}
    IN  Offer(IF Len(col) > 1
              THEN (IF reference THEN upper(col[2]) ELSE col[2])
              ELSE s_Unknown,
              IF Len(col) > 2 /\ ~reference /\ ~IsReservedSuffix(col[3])
              THEN Str(col[3]) ELSE None,
              parse_price(row[col], skip_rules))

RECURSIVE WideOffers(_, _, _)
WideOffers(row, columns, skip_rules) ==
    IF columns = <<>> THEN <<>>
    ELSE (IF IsWidePriceCol(columns[1])
          THEN <<WideOffer(row, columns[1], skip_rules)>>
          ELSE <<>>)
         \o WideOffers(row, Tail(columns), skip_rules)

RECURSIVE AddOffersWide(_, _, _)
AddOffersWide(st, item_id, offs) ==
    IF offs = <<>> THEN st
    ELSE Only({AddOffersWide(s, item_id, Tail(offs)) :
                s \in {IF HasContent(offs[1].amount, offs[1].notes)
                       THEN AddPriceWide(st, item_id, offs[1].payer, offs[1].plan,
                                         offs[1].amount, offs[1].notes)
                       ELSE st}})

\* "Create item" of ingest_csv_wide, which keeps no item cache
CreateItemWide(st, code, code_type, desc, setting, hospital_id) ==
    LET id == NextId(st.items)
    IN  [st |-> [st EXCEPT
                    !.items = @ \cup {Item(id, code, code_type, desc, hospital_id, setting)},
                    !.items_created = @ + 1],
         item_id |-> id]

\* body of "for idx, row in df.iterrows()" of ingest_csv_wide
ingest_csv_wide_row(st, columns, row, config, hospital_id, skip_rules) ==
    Only({
      IF SkipRow(cc[1]) THEN [st EXCEPT !.skip = TRUE]
      ELSE Only({AddOffersWide(g.st, g.item_id, offers) :
                    g \in {CreateItemWide(st, cc[1], cc[2], desc, setting, hospital_id)},
                    offers \in {WideOffers(row, columns, skip_rules)}}) :
         cc \in {extract_code(row, config, FALSE)},
         desc \in {CsvDescription(row, config)},
         setting \in {extract_setting(row, config, FALSE)}})

-----------------------------------------------------------------------------
(* JSON records.  A record and a charge object are dicts keyed by column   *)
(* names; a payer object and a code object are dicts keyed by plain names.  *)

s_gross_charge == <<"g", "r", "o", "s", "s", "_", "c", "h", "a", "r", "g", "e">>
s_payers_information ==
    <<"p", "a", "y", "e", "r", "s", "_", "i", "n", "f", "o", "r", "m", "a", "t", "i", "o", "n">>
key_gross_charge == <<s_gross_charge>>
key_discounted_cash == <<s_discounted_cash>>
key_payers_information == <<s_payers_information>>

\* the keys of a dict in the order items() yields them; the order only
\* decides which id an offer gets
KeysOf(d) ==
    CHOOSE q \in [1..Cardinality(DOMAIN d) -> DOMAIN d] :
        \A k \in DOMAIN d : \E i \in 1..Cardinality(DOMAIN d) : q[i] = k

\* str.title()
title(s) ==
    [i \in 1..Len(s) |->
        IF i = 1 \/ ~isalphaChar(s[i - 1]) THEN UpperChar(s[i]) ELSE LowerChar(s[i])]

\* s.replace('_', ' ')
underscoresToBlanks(s) == [i \in 1..Len(s) |-> IF s[i] = "_" THEN " " ELSE s[i]]

\* description of a JSON record
JsonDescription(record, config) ==
    LET desc_col == Get(config, "description_column", col_description)
        desc == Get(record, desc_col, Str(s_No_Description))
    IN  IF isna(desc) \/ (desc.t = "str" /\ strip(desc.v) = <<>>)
        THEN s_No_Description
        ELSE strip(strOf(desc, TRUE))

\* note of a payer entry: the parsed note joined with additional_payer_notes
PayerNote(price_note, additional_notes) ==
    IF truthy(additional_notes) /\ truthy(price_note)
    THEN Str(price_note.v \o <<";", " ">> \o strip(strOf(additional_notes, TRUE)))
    ELSE IF truthy(additional_notes)
         THEN Str(strip(strOf(additional_notes, TRUE)))
    ELSE price_note

\* offers of one entry of payers_information
PayerObjOffers(payer_obj, skip_rules) ==
    LET o == payer_obj.d
        payer_name == Or(Get(o, "payer_name", None), Get(o, "payer", None))
        plan_name == Or(Get(o, "plan_name", None), Get(o, "plan", None))
        estimated == Or(Get(o, "estimated_amount", None), Get(o, "negotiated_dollar", None))
        pp == parse_price(estimated, skip_rules)
    IN  IF payer_obj.t = "dict" /\ truthy(payer_name) /\ ~isna(estimated)
        THEN IF pp = ValueError THEN <<Raises>>
             ELSE
             << Offer(strip(strOf(payer_name, TRUE)),
                      IF truthy(plan_name) THEN Str(strip(strOf(plan_name, TRUE))) ELSE None,
                      <<pp[1], PayerNote(pp[2], Get(o, "additional_payer_notes", None))>>) >>
        ELSE <<>>

RECURSIVE PayersOffers(_, _)
PayersOffers(payers_info, skip_rules) ==
    IF payers_info = <<>> THEN <<>>
    ELSE PayerObjOffers(payers_info[1], skip_rules)
         \o PayersOffers(Tail(payers_info), skip_rules)

\* gross charge, discounted cash and payers_information of a charge object
ChargeObjOffers(charge_obj, skip_rules) ==
    (IF key_gross_charge \in DOMAIN charge_obj /\ ~isna(charge_obj[key_gross_charge])
     THEN <<Offer(s_GROSS, None, parse_price(charge_obj[key_gross_charge], skip_rules))>>
     ELSE <<>>)
    \o
    (IF key_discounted_cash \in DOMAIN charge_obj /\ ~isna(charge_obj[key_discounted_cash])
     THEN <<Offer(s_DISCOUNTED_CASH, None,
                  parse_price(charge_obj[key_discounted_cash], skip_rules))>>
     ELSE <<>>)
    \o
    (IF /\ key_payers_information \in DOMAIN charge_obj
        /\ charge_obj[key_payers_information].t = "list"
     THEN PayersOffers(charge_obj[key_payers_information].l, skip_rules)
     ELSE <<>>)

\* d.get(col) for a configured column col that may be None
DictGet(d, col) == IF truthy(col) /\ col.v \in DOMAIN d THEN d[col.v] ELSE None

\* "fallback for other structures", payer_style == 'column'
JsonColumnOffers(charge_obj, record, price_ext, skip_rules) ==
    LET payer_col == Get(price_ext, "payer_column", Str(col_payer_name))
        plan_col == Get(price_ext, "plan_column", Str(col_plan_name))
        price_col == Get(price_ext, "price_column", Str(col_json_negotiated_dollar))
        payer == Or(DictGet(charge_obj, payer_col), DictGet(record, payer_col))
        plan == Or(DictGet(charge_obj, plan_col), DictGet(record, plan_col))
        price_val_raw == Or(DictGet(charge_obj, price_col), DictGet(record, price_col))
    IN  IF truthy(payer) /\ ~isna(price_val_raw)
        THEN << Offer(strip(strOf(payer, TRUE)),
                      IF truthy(plan) THEN Str(strip(strOf(plan, TRUE))) ELSE None,
                      parse_price(price_val_raw, skip_rules)) >>
        ELSE <<>>

\* "fallback for other structures", payer_style == 'header'
RECURSIVE JsonHeaderOffers(_, _, _)
JsonHeaderOffers(charge_obj, keys, skip_rules) ==
    IF keys = <<>> THEN <<>>
    ELSE (IF /\ \/ contains(lower(Join(keys[1])), s_negotiated)
                \/ contains(lower(Join(keys[1])), s_estimated)
             /\ charge_obj[keys[1]].t = "num"
          THEN LET t == title(underscoresToBlanks(Join(keys[1])))
               IN  <<Offer(SubSeq(t, 1, IF Len(t) < 50 THEN Len(t) ELSE 50), None,
                           parse_price(charge_obj[keys[1]], skip_rules))>>
          ELSE <<>>)
         \o JsonHeaderOffers(charge_obj, Tail(keys), skip_rules)

\* offers of the charge objects of a list-valued standard_charges
RECURSIVE ChargeListOffers(_, _, _, _)
ChargeListOffers(charges, record, price_ext, skip_rules) ==
    IF charges = <<>> THEN <<>>
    ELSE (IF charges[1].t = "dict"
          THEN ChargeObjOffers(charges[1].d, skip_rules)
               \o (IF Get(price_ext, "payer_style", "column") = "column"
                   THEN JsonColumnOffers(charges[1].d, record, price_ext, skip_rules)
                   ELSE JsonHeaderOffers(charges[1].d, KeysOf(charges[1].d), skip_rules))
          ELSE <<>>)
         \o ChargeListOffers(Tail(charges), record, price_ext, skip_rules)

\* offers of "Extract prices from nested standard_charges structure"
JsonOffers(record, price_ext, skip_rules) ==
    LET sc_parsed == parse_json_value(Get(record, col_standard_charges, None))
    IN  IF col_standard_charges \notin DOMAIN record THEN <<>>
        ELSE IF sc_parsed.t = "list"
             THEN ChargeListOffers(sc_parsed.l, record, price_ext, skip_rules)
        ELSE IF sc_parsed.t = "dict" THEN ChargeObjOffers(sc_parsed.d, skip_rules)
        ELSE <<>>

\* body of "for idx, record in enumerate(records)" of ingest_json
ingest_json_record(st, rec, config, hospital_id, skip_rules) ==
    LET record == rec.d
        price_ext == Get(config, "price_extraction", EmptyDict)
    IN  IF rec.t # "dict" THEN [st EXCEPT !.skip = TRUE]
        ELSE Only({
               IF SkipRow(cc[1]) THEN [st EXCEPT !.skip = TRUE]
               ELSE Only({AddOffers(g.st, g.item_id, offers) :
                      g \in {GetOrCreateItem(st, cc[1], cc[2], desc, setting, hospital_id)},
                      offers \in {JsonOffers(record, price_ext, skip_rules)}}) :
                  cc \in {extract_code(record, config, TRUE)},
                  desc \in {JsonDescription(record, config)},
                  setting \in {extract_setting(record, config, TRUE)}})

\* the records ingest_json finds in the loaded data, <<>> when it finds none
JsonRecords(data) ==
    LET keys == <<"standard_charge_information", "data", "items", "records">>
        hits == SelectSeq(keys, LAMBDA k : k \in DOMAIN data.d /\ data.d[k].t = "list")
    IN  IF data.t = "list" THEN data.l
        ELSE IF data.t = "dict" /\ hits # <<>> THEN data.d[hits[1]].l
        ELSE <<>>

-----------------------------------------------------------------------------
(* ingest_hospital and the batch loop of main()                             *)

Hospitals == {"H1", "H2"}

COMMIT_EVERY == 1000

NoFile == [kind |-> "none"]
\* content of a .json file that json.load cannot decode
Malformed == [t |-> "malformed"]
NoOutcome == [hospital |-> "none"]
Pending == <<>>

IsWordChar(c) ==
    \/ \E i \in 1..26 : c = LowerChars[i] \/ c = UpperChars[i]
    \/ c \in DigitChars
    \/ c = "_"

\* re.sub(r'[^\w\s-]', '', name)
WithoutSpecial(name) ==
    SelectSeq(name, LAMBDA c : IsWordChar(c) \/ c = " " \/ c = "-")

\* re.sub(r'[-\s]+', '_', slug): the last character of every run of blanks
\* and hyphens becomes '_', the others of the run go
Underscored(slug) ==
    LET IsSep(i) == slug[i] \in {" ", "-"}
        kept == SelectSeq([i \in 1..Len(slug) |-> i],
                          LAMBDA i : ~(IsSep(i) /\ i < Len(slug) /\ IsSep(i + 1)))
    IN  [k \in 1..Len(kept) |-> IF IsSep(kept[k]) THEN "_" ELSE slug[kept[k]]]

SLUG_LENGTH == 50

\* a slug that keeps the name as it is: with it in place of slugify the
\* hospitals of different names never share an id
KeepName(name) == name

slugify(name) ==
    LET slug == upper(Underscored(WithoutSpecial(name)))
    IN  SubSeq(slug, 1, IF Len(slug) < SLUG_LENGTH THEN Len(slug) ELSE SLUG_LENGTH)

\* db_hospital_id = slugify(hospital_name) of a hospital of the manifest
db_hospital_id(h) == slugify(hospital_name[h])

Locals ==
    [items |-> items, prices |-> prices, item_cache |-> item_cache,
     price_dedupe |-> price_dedupe, items_created |-> items_created,
     prices_created |-> prices_created, payer_style |-> payer_style,
     err |-> FALSE, skip |-> FALSE]

\* number of rows the store (session view) holds for hospital h
StoredItems(its, h) == Cardinality({i \in its : i.hospital_id = db_hospital_id(h)})

StoredPrices(its, prs, h) ==
    Cardinality({p \in prs : \E i \in its :
                    i.id = p.item_id /\ i.hospital_id = db_hospital_id(h)})

\* what ingest_hospital returned, and what the store then held for h
Outcome(h, success, n_items, n_prices, error, its, prs) ==
    [hospital |-> h, success |-> success, items |-> n_items, prices |-> n_prices,
     error |-> error, storeItems |-> StoredItems(its, h),
     storePrices |-> StoredPrices(its, prs, h)]

\* rows (or records) of the loaded file f
RowsOf(f) == IF f.kind = "json" THEN JsonRecords(f.data) ELSE f.rows

\* which loop ingest_hospital runs over the file
LoopOf(f, config) ==
    IF f.kind = "json" THEN "json"
    ELSE IF Get(config, "format_type", "tall") = "wide" THEN "wide"
    ELSE "tall"

\* ingest_hospital up to the first row: find the file, delete the
\* hospital's rows, load the file
StartIngest(h) ==
    LET f == dataFile[h]
        config == configOf[h]
        fail(msg, its, prs) ==
            /\ pc' = "idle"
            /\ prev' = last
            /\ last' = Outcome(h, FALSE, 0, 0, msg, its, prs)
            /\ UNCHANGED <<cur, idx, item_cache, price_dedupe, items_created,
                           prices_created, payer_style, skipped>>
    IN  /\ pc = "idle"
        /\ runs < MaxRuns
        /\ runs' = runs + 1
        /\ UNCHANGED <<arg, ret, dataFile, configOf, hospital_name, main, CONFIG_MANIFEST, proc, lock>>
        /\ IF f = NoFile
           THEN /\ fail("Data file not found", items, prices)
                /\ UNCHANGED <<items, prices, cItems, cPrices>>
           ELSE \E d \in {delete_hospital_data(items, prices, db_hospital_id(h))} :
                /\ items' = d.items
                /\ prices' = d.prices
                /\ cItems' = IF d.commit THEN d.items ELSE cItems
                /\ cPrices' = IF d.commit THEN d.prices ELSE cPrices
                /\ IF f.kind \notin {"csv", "json"}
                   THEN fail("Unsupported file type", d.items, d.prices)
                   ELSE IF f.kind = "json" /\ f.data = Malformed
                   THEN fail("JSONDecodeError", d.items, d.prices)
                   ELSE IF f.kind = "json" /\ JsonRecords(f.data) = <<>>
                   THEN fail("Could not parse JSON structure - no records found",
                             d.items, d.prices)
                   ELSE /\ pc' = "rows"
                        /\ cur' = h
                        /\ idx' = 0
                        /\ item_cache' = <<>>
                        /\ price_dedupe' = {}
                        /\ items_created' = 0
                        /\ prices_created' = 0
                        /\ payer_style' =
                              Get(Get(config, "price_extraction", EmptyDict),
                                  "payer_style", "column")
                        /\ skipped' = {}
                        /\ UNCHANGED <<last, prev>>

\* the effect of one loop body on the state: st is the locals after it, and
\* the loop commits when the index of the row is a multiple of every (never
\* when every is 0)
AfterRowEvery(st, every) ==
    /\ items' = st.items
    /\ prices' = st.prices
    /\ item_cache' = st.item_cache
    /\ price_dedupe' = st.price_dedupe
    /\ items_created' = st.items_created
    /\ prices_created' = st.prices_created
    /\ payer_style' = st.payer_style
    /\ UNCHANGED <<arg, ret, dataFile, configOf, hospital_name, main, CONFIG_MANIFEST, proc, lock, cur, runs>>
    /\ IF st.err
       THEN \* the exception is caught by ingest_hospital, which returns
            /\ pc' = "idle"
            /\ prev' = last
            /\ last' = Outcome(cur, FALSE, 0, 0, "exception", st.items, st.prices)
            /\ UNCHANGED <<idx, cItems, cPrices, skipped>>
       ELSE /\ idx' = idx + 1
            /\ skipped' = IF st.skip THEN skipped \cup {idx} ELSE skipped
            \* "continue" also skips the periodic commit
            /\ IF ~st.skip /\ every > 0 /\ idx % every = 0
               THEN cItems' = st.items /\ cPrices' = st.prices
               ELSE UNCHANGED <<cItems, cPrices>>
            /\ UNCHANGED <<pc, last, prev>>

\* the loops of the source commit every 1000 rows
AfterRow(st) == AfterRowEvery(st, COMMIT_EVERY)

AtRow(loop) ==
    /\ pc = "rows"
    /\ LoopOf(dataFile[cur], configOf[cur]) = loop
    /\ idx < Len(RowsOf(dataFile[cur]))

TallRow ==
    /\ AtRow("tall")
    /\ \E st \in {ingest_csv_tall_row(Locals, dataFile[cur].columns,
                        dataFile[cur].rows[idx + 1], configOf[cur],
                        db_hospital_id(cur),
                        Get(configOf[cur], "skip_rules", EmptyDict))} :
          AfterRow(st)

WideRow ==
    /\ AtRow("wide")
    /\ \E st \in {ingest_csv_wide_row(Locals, dataFile[cur].columns,
                        dataFile[cur].rows[idx + 1], configOf[cur],
                        db_hospital_id(cur),
                        Get(configOf[cur], "skip_rules", EmptyDict))} :
          AfterRow(st)

JsonRecord ==
    /\ AtRow("json")
    /\ \E st \in {ingest_json_record(Locals, RowsOf(dataFile[cur])[idx + 1],
                        configOf[cur], db_hospital_id(cur),
                        Get(configOf[cur], "skip_rules", EmptyDict))} :
          AfterRow(st)

\* a loop that returns without its final session.commit(): with it the
\* committed store depends on where the periodic commit fell
FinishWithoutCommit ==
    /\ pc = "rows"
    /\ idx = Len(RowsOf(dataFile[cur]))
    /\ pc' = "idle"
    /\ prev' = last
    /\ last' = Outcome(cur, TRUE, items_created, prices_created, "", items, prices)
    /\ UNCHANGED <<arg, ret, dataFile, configOf, hospital_name, main, CONFIG_MANIFEST, proc, lock, items, prices,
                   cItems, cPrices, cur, idx, item_cache, price_dedupe, items_created,
                   prices_created, payer_style, runs, skipped>>

\* the final session.commit() of the loop and the return of ingest_hospital
FinishIngest ==
    /\ pc = "rows"
    /\ idx = Len(RowsOf(dataFile[cur]))
    /\ cItems' = items
    /\ cPrices' = prices
    /\ pc' = "idle"
    /\ prev' = last
    /\ last' = Outcome(cur, TRUE, items_created, prices_created, "", items, prices)
    /\ UNCHANGED <<arg, ret, dataFile, configOf, hospital_name, main, CONFIG_MANIFEST, proc, lock, items, prices, cur, idx,
                   item_cache, price_dedupe, items_created, prices_created,
                   payer_style, runs, skipped>>

\* the body of the loop of hospital h applied to its k-th row
RowOf(st, h, k) ==
    LET skip_rules == Get(configOf[h], "skip_rules", EmptyDict)
        loop == LoopOf(dataFile[h], configOf[h])
    IN  IF loop = "json"
        THEN ingest_json_record(st, RowsOf(dataFile[h])[k], configOf[h],
                                db_hospital_id(h), skip_rules)
        ELSE IF loop = "wide"
        THEN ingest_csv_wide_row(st, dataFile[h].columns, dataFile[h].rows[k],
                                 configOf[h], db_hospital_id(h), skip_rules)
        ELSE ingest_csv_tall_row(st, dataFile[h].columns, dataFile[h].rows[k],
                                 configOf[h], db_hospital_id(h), skip_rules)

-----------------------------------------------------------------------------
(* Source files and descriptors of the model                                *)

t_99213 == <<"9", "9", "2", "1", "3">>
t_Office_Visit == <<"O", "f", "f", "i", "c", "e", " ", "V", "i", "s", "i", "t">>
t_Aetna == <<"A", "e", "t", "n", "a">>
t_Cigna == <<"C", "i", "g", "n", "a">>
t_Open_Access == <<"O", "p", "e", "n", " ", "A", "c", "c", "e", "s", "s">>
t_outpatient == <<"o", "u", "t", "p", "a", "t", "i", "e", "n", "t">>
t_150_00 == <<"1", "5", "0", ".", "0", "0">>
t_300_00 == <<"3", "0", "0", ".", "0", "0">>
t_1234_50 == <<"$", "1", ",", "2", "3", "4", ".", "5", "0">>
t_200 == <<"2", "0", "0">>
t_19 == <<"1", "9">>
t_99999999 == <<"9", "9", "9", "9", "9", "9", "9", "9">>
t_99999998 == <<"9", "9", "9", "9", "9", "9", "9", "8">>
t_blank == <<" ">>
s_rate == <<"r", "a", "t", "e">>
s_negotiated_percentage ==
    <<"n", "e", "g", "o", "t", "i", "a", "t", "e", "d", "_",
      "p", "e", "r", "c", "e", "n", "t", "a", "g", "e">>
s_methodology == <<"m", "e", "t", "h", "o", "d", "o", "l", "o", "g", "y">>
t_45 == <<"4", "5">>
t_case_rate == <<"c", "a", "s", "e", " ", "r", "a", "t", "e">>

col_rate == <<s_rate>>
col_negotiated_percentage == <<s_negotiated_percentage>>
col_methodology == <<s_methodology>>
col_cigna_negotiated == <<s_standard_charge, t_Cigna, t_Open_Access, s_negotiated_dollar>>
col_cigna_estimated == <<s_standard_charge, t_Cigna, t_Open_Access, s_estimated_amount>>
col_aetna_negotiated == <<s_standard_charge, t_Aetna, s_negotiated_dollar>>
col_cigna_methodology == <<s_standard_charge, t_Cigna, t_Open_Access, s_methodology>>
col_min == <<s_standard_charge, s_min>>
key_code == <<s_code>>
key_type == <<s_type>>

Range(q) == {q[i] : i \in 1..Len(q)}

\* the row of a CSV file with the given columns and cells
MkRow(columns, cells) ==
    [c \in Range(columns) |-> cells[CHOOSE i \in 1..Len(columns) : columns[i] = c]]

SeqsUpTo(S, n) == UNION {[1..k -> S] : k \in 0..n}

\* names of hospitals
n_St_Marys == <<"S", "t", ".", " ", "M", "a", "r", "y", "'", "s">>
n_St_Marys_plain == <<"S", "t", " ", "M", "a", "r", "y", "s">>
n_Mercy_West == <<"M", "e", "r", "c", "y", " ", "-", " ", "W", "e", "s", "t">>

\* tall file of the spec's scenario: payer and price in columns
TallColumns ==
    <<col_code_1, col_code_1_type, col_description, col_payer_name,
      col_negotiated_dollar, col_gross>>

\* a tall file with the price column named "rate" and the columns
\* negotiated_percentage and methodology next to it
TallColumnsRate ==
    <<col_code_1, col_code_1_type, col_description, col_payer_name, col_rate, col_gross,
      col_negotiated_percentage, col_methodology>>

\* its rows: one with a dollar amount, one with a percentage only
RateCells ==
    { <<Str(t_99213), Str(s_CPT), Str(t_Office_Visit), Str(t_Aetna), Str(t_150_00),
        Str(t_300_00), None, None>>,
      <<Str(t_99213), Str(s_CPT), Str(t_Office_Visit), Str(t_Cigna), None,
        None, Str(t_45), Str(t_case_rate)>> }

\* a second payer of the same item
CignaCells ==
    <<Str(t_99213), Str(s_CPT), Str(t_Office_Visit), Str(t_Cigna), Str(t_1234_50),
      Str(t_300_00)>>

TallCells ==
    { <<Str(t_99213), Str(s_CPT), Str(t_Office_Visit), Str(t_Aetna), Str(t_150_00), Str(t_300_00)>>,
      CignaCells,
      <<None, None, Str(t_Office_Visit), Str(t_Aetna), Str(t_150_00), Str(t_300_00)>> }

\* the row of the end-to-end scenario
ScenarioCells ==
    <<Str(t_99213), Str(s_CPT), Str(t_Office_Visit), Str(t_Aetna), Str(t_150_00),
      Str(t_300_00)>>

CodeExtraction ==
    [columns |-> <<col_code_1>>, type_columns |-> <<Str(col_code_1_type)>>]

TallConfig ==
    [format_type |-> "tall", code_extraction |-> CodeExtraction,
     price_extraction |-> [payer_style |-> "column"]]

TallConfigRate ==
    [format_type |-> "tall", code_extraction |-> CodeExtraction,
     price_extraction |-> [payer_style |-> "column", price_column |-> Str(col_rate),
                           sibling_columns |-> <<col_negotiated_percentage,
                                                 col_methodology>>]]

\* file with the payers in the column names
WideColumns ==
    <<col_code_1, col_code_1_type, col_description, col_cigna_negotiated,
      col_cigna_estimated, col_gross, col_aetna_negotiated, col_cigna_methodology,
      col_min>>

WideScenarioCells ==
    <<Str(t_99213), Str(s_CPT), Str(t_Office_Visit), Str(t_200), Str(t_200), Str(t_300_00),
      Str(t_150_00), Str(t_case_rate), Str(t_19)>>

WideCells ==
    { WideScenarioCells,
      <<Str(t_99213), Str(s_CPT), Str(t_Office_Visit), Str(t_200), None, None,
        None, None, None>>,
      <<None, None, Str(t_Office_Visit), Str(t_200), None, Str(t_300_00),
        None, None, None>> }

WideConfig ==
    [format_type |-> "wide", code_extraction |-> CodeExtraction,
     price_extraction |-> [payer_style |-> "header"]]

\* descriptor that reads the same file row by row in header style
TallHeaderConfig ==
    [format_type |-> "tall", code_extraction |-> CodeExtraction,
     price_extraction |-> [payer_style |-> "header"]]

JsonCharge(gross, payers) ==
    Dict(key_gross_charge :> gross @@ col_setting :> Str(t_outpatient)
         @@ key_payers_information :> List([i \in 1..Len(payers) |-> Dict(payers[i])]))

JsonRecordOf(code, charge) ==
    Dict(key_code :> code @@ key_type :> Str(s_CPT)
         @@ col_description :> Str(t_Office_Visit)
         @@ col_standard_charges :> List(<<charge>>))

\* a payer entry with a percentage and no dollar amount
PercentagePayer ==
    [payer_name |-> Str(t_Cigna), negotiated_percentage |-> JNum(t_45),
     methodology |-> Str(t_case_rate)]

\* the records of the JSON files: a priced one with a percentage-only payer
\* entry, one with a placeholder amount, one without a code, and one whose
\* gross charge is a list
JsonScenarioRecord ==
    JsonRecordOf(Str(t_99213),
        JsonCharge(JNum(t_300_00),
                   << [payer_name |-> Str(t_Aetna), estimated_amount |-> JNum(t_150_00)],
                      PercentagePayer >>))

JsonPlaceholderRecord ==
    JsonRecordOf(Str(t_99213),
        JsonCharge(JNum(t_300_00),
                   << [payer_name |-> Str(t_Cigna), estimated_amount |-> JNum(t_99999999),
                       additional_payer_notes |-> Str(t_blank)] >>))

JsonRecords3 ==
    { JsonScenarioRecord,
      JsonPlaceholderRecord,
      JsonRecordOf(None,
          JsonCharge(JNum(t_300_00),
                     << [payer_name |-> Str(t_Aetna), estimated_amount |-> JNum(t_150_00)] >>)),
      JsonRecordOf(Str(t_99213),
          JsonCharge(List(<<JNum(t_150_00), JNum(t_300_00)>>),
                     << [payer_name |-> Str(t_Aetna), estimated_amount |-> JNum(t_150_00)] >>)) }

JsonConfig ==
    [format_type |-> "json",
     code_extraction |-> [columns |-> <<key_code>>, type_columns |-> <<Str(key_type)>>],
     price_extraction |-> [payer_style |-> "column"]]

CsvFile(columns, cells) ==
    [kind |-> "csv", columns |-> columns,
     rows |-> [i \in 1..Len(cells) |-> MkRow(columns, cells[i])]]

\* the data files, each with the descriptor written for it: CSV files of at
\* most n rows read in column style or as wide files, CSV files read in
\* header style and JSON files of at most m rows, a missing file and a JSON
\* file that cannot be decoded
Sources(n, m) ==
    {[file |-> CsvFile(TallColumns, q), config |-> TallConfig] : q \in SeqsUpTo(TallCells, n)}
    \cup
    {[file |-> CsvFile(TallColumnsRate, q), config |-> TallConfigRate] :
        q \in SeqsUpTo(RateCells, n)}
    \cup
    {[file |-> CsvFile(WideColumns, q), config |-> WideConfig] : q \in SeqsUpTo(WideCells, n)}
    \cup
    {[file |-> CsvFile(WideColumns, q), config |-> TallHeaderConfig] :
        q \in SeqsUpTo(WideCells, m)}
    \cup
    {[file |-> [kind |-> "json", data |-> List(q)], config |-> JsonConfig] :
        q \in SeqsUpTo(JsonRecords3, m)}
    \cup
    {[file |-> NoFile, config |-> TallConfig],
     [file |-> [kind |-> "json", data |-> Malformed], config |-> JsonConfig]}

\* the data files of the second hospital: tall files of at most n rows
OtherSources(n) ==
    {[file |-> CsvFile(TallColumns, q), config |-> TallConfig] : q \in SeqsUpTo(TallCells, n)}
    \cup
    {[file |-> NoFile, config |-> TallConfig]}

-----------------------------------------------------------------------------
(* Specification of the ingestor *)

\* main() not started
NoMain == [pc |-> "off"]

\* the manifest is not looked at: ingest_hospital is called for any hospital
NoManifest ==
    /\ main = NoMain
    /\ CONFIG_MANIFEST = <<>>

\* the state of main() before the first ingest_hospital, the store empty
BeforeBatch ==
    /\ arg = Pending
    /\ ret = Pending
    /\ proc = <<>>
    /\ lock = "none"
    /\ items = {}
    /\ prices = {}
    /\ cItems = {}
    /\ cPrices = {}
    /\ pc = "idle"
    /\ cur = "none"
    /\ idx = 0
    /\ item_cache = <<>>
    /\ price_dedupe = {}
    /\ items_created = 0
    /\ prices_created = 0
    /\ payer_style = "column"
    /\ runs = 0
    /\ last = NoOutcome
    /\ prev = NoOutcome
    /\ skipped = {}

Init ==
    /\ \E a \in Sources(MaxRows, MaxRowsOther), b \in OtherSources(MaxRowsOther) :
          /\ dataFile = [h \in Hospitals |-> IF h = "H1" THEN a.file ELSE b.file]
          /\ configOf = [h \in Hospitals |-> IF h = "H1" THEN a.config ELSE b.config]
    /\ hospital_name = [h \in Hospitals |-> IF h = "H1" THEN n_St_Marys ELSE n_Mercy_West]
    /\ BeforeBatch
    /\ NoManifest

Next ==
    \/ \E h \in Hospitals : StartIngest(h)
    \/ TallRow
    \/ WideRow
    \/ JsonRecord
    \/ FinishIngest

Spec == Init /\ [][Next]_vars

-----------------------------------------------------------------------------
(* The batch over a manifest whose hospital names vary                      *)

\* one file of one row for each loop, and a missing file
SampleSources ==
    {[file |-> CsvFile(TallColumns, <<ScenarioCells>>), config |-> TallConfig],
     [file |-> CsvFile(WideColumns, <<WideScenarioCells>>), config |-> WideConfig],
     [file |-> [kind |-> "json", data |-> List(<<JsonScenarioRecord>>)],
      config |-> JsonConfig],
     [file |-> NoFile, config |-> TallConfig]}

HospitalNames == {n_St_Marys, n_St_Marys_plain, n_Mercy_West}

InitNames ==
    /\ \E a, b \in SampleSources :
          /\ dataFile = [h \in Hospitals |-> IF h = "H1" THEN a.file ELSE b.file]
          /\ configOf = [h \in Hospitals |-> IF h = "H1" THEN a.config ELSE b.config]
    /\ \E m, n \in HospitalNames :
          /\ m # n
          /\ hospital_name = [h \in Hospitals |-> IF h = "H1" THEN m ELSE n]
    /\ BeforeBatch
    /\ NoManifest

SpecNames == InitNames /\ [][Next]_vars

-----------------------------------------------------------------------------
(* The batch stopped in the middle of a file and run again                  *)

\* main() is stopped inside the loop over the rows (KeyboardInterrupt, or the
\* process ends): the session is closed, what it had not committed is gone,
\* and the next main() starts from the committed store
Stop ==
    /\ pc = "rows"
    /\ pc' = "idle"
    /\ items' = cItems
    /\ prices' = cPrices
    /\ prev' = last
    /\ last' = Outcome(cur, FALSE, 0, 0, "stopped", cItems, cPrices)
    /\ UNCHANGED <<arg, ret, dataFile, configOf, hospital_name, main, CONFIG_MANIFEST, proc, lock, cItems, cPrices, cur,
                   idx, item_cache, price_dedupe, items_created, prices_created,
                   payer_style, runs, skipped>>

\* the second hospital has the file of the end-to-end scenario
InitStop ==
    /\ \E a \in Sources(MaxRows, MaxRowsOther) :
          /\ dataFile = [h \in Hospitals |->
                            IF h = "H1" THEN a.file
                            ELSE CsvFile(TallColumns, <<ScenarioCells>>)]
          /\ configOf = [h \in Hospitals |-> IF h = "H1" THEN a.config ELSE TallConfig]
    /\ hospital_name = [h \in Hospitals |-> IF h = "H1" THEN n_St_Marys ELSE n_Mercy_West]
    /\ BeforeBatch
    /\ NoManifest

NextStop ==
    \/ Next
    \/ Stop

SpecStop == InitStop /\ [][NextStop]_vars

-----------------------------------------------------------------------------
(* The batch with the loops committing at another interval                  *)

\* after every row, every 1000 rows (the source), never before the end
CommitIntervals == {1, COMMIT_EVERY, 0}

\* the body of the running loop on its next row, the periodic commit of the
\* loop (idx % 1000 == 0) taken with any of the intervals
RowAtInterval ==
    /\ pc = "rows"
    /\ idx < Len(RowsOf(dataFile[cur]))
    /\ \E st \in {RowOf(Locals, cur, idx + 1)} :
          \E every \in CommitIntervals : AfterRowEvery(st, every)

NextCommit ==
    \/ \E h \in Hospitals : StartIngest(h)
    \/ RowAtInterval
    \/ FinishIngest

SpecCommit == InitStop /\ [][NextCommit]_vars

-----------------------------------------------------------------------------
(* main() over the manifest, next to the validation server of               *)
(* preview_cards.py.  An entry of manifest['configs'] keeps 'validated' and  *)
(* 'ingested' as "True", "False" or "None" (key absent), the counts as       *)
(* numbers (-1: key absent).                                                 *)

Entry(status, validated) ==
    [status |-> status, validated |-> validated, ingested |-> "None",
     items_count |-> -1, prices_count |-> -1, ingest_error |-> ""]

\* the order of manifest['configs'].items()
HospitalOrder == <<"H1", "H2">>

\* sys.argv of main(): --force-all, --hospital-id ("" when not given, "HX" an
\* id the manifest does not have), --dry-run
Args == [force_all : BOOLEAN, hospital_id : {"", "H1", "H2", "HX"}, dry_run : BOOLEAN]

SAVE_EVERY == 5

\* to_ingest of main(); "exit" where main() ends with sys.exit(1)
ToIngest(args, configs) ==
    IF args.hospital_id # ""
    THEN IF args.hospital_id \in DOMAIN configs THEN <<args.hospital_id>> ELSE "exit"
    ELSE SelectSeq(HospitalOrder,
                   LAMBDA h : /\ configs[h].status = "completed"
                              /\ \/ args.force_all
                                 \/ configs[h].validated = "True")

\* main() from its start to the loop over to_ingest: the session is opened,
\* the manifest loaded, and main() ends at once when there is nothing to
\* ingest or with --dry-run
MainStart(args) ==
    /\ main.pc = "off"
    /\ pc = "idle"
    /\ runs < MaxRuns
    /\ \E to_ingest \in {ToIngest(args, CONFIG_MANIFEST)} :
          main' = [pc |-> IF to_ingest = "exit" \/ to_ingest = <<>> \/ args.dry_run
                          THEN "off" ELSE "loop",
                   args |-> args,
                   manifest |-> CONFIG_MANIFEST,
                   to_ingest |-> IF to_ingest = "exit" THEN <<>> ELSE to_ingest,
                   i |-> 0,
                   base |-> runs]
    /\ UNCHANGED <<arg, ret, dataFile, configOf, hospital_name, CONFIG_MANIFEST, proc, lock,
                   items, prices, cItems, cPrices, pc, cur, idx, item_cache, price_dedupe,
                   items_created, prices_created, payer_style, runs, last, prev, skipped>>

\* the call ingest_hospital(hospital_id, config, info, session) of the loop
MainIngest ==
    /\ main.pc = "loop"
    /\ main.i < Len(main.to_ingest)
    /\ runs = main.base + main.i
    /\ StartIngest(main.to_ingest[main.i + 1])

\* after ingest_hospital returned: the entry of the hospital in main()'s
\* manifest is updated, and the manifest saved every fifth hospital
Record ==
    /\ main.pc = "loop"
    /\ pc = "idle"
    /\ runs = main.base + main.i + 1
    /\ \E manifest \in {[main.manifest EXCEPT ![last.hospital] =
              IF last.success
              THEN [@ EXCEPT !.ingested = "True", !.items_count = last.items,
                             !.prices_count = last.prices]
              ELSE [@ EXCEPT !.ingested = "False", !.ingest_error = last.error]]} :
          /\ main' = [main EXCEPT !.manifest = manifest, !.i = @ + 1]
          /\ CONFIG_MANIFEST' = IF (main.i + 1) % SAVE_EVERY = 0
                                THEN manifest ELSE CONFIG_MANIFEST
    /\ UNCHANGED <<arg, ret, dataFile, configOf, hospital_name, proc, lock,
                   items, prices, cItems, cPrices, pc, cur, idx, item_cache, price_dedupe,
                   items_created, prices_created, payer_style, runs, last, prev, skipped>>

\* the end of main(): the final save of the manifest and session.close()
MainEnd ==
    /\ main.pc = "loop"
    /\ pc = "idle"
    /\ main.i = Len(main.to_ingest)
    /\ main' = [main EXCEPT !.pc = "off"]
    /\ CONFIG_MANIFEST' = main.manifest
    /\ items' = cItems
    /\ prices' = cPrices
    /\ UNCHANGED <<arg, ret, dataFile, configOf, hospital_name, proc, lock,
                   cItems, cPrices, pc, cur, idx, item_cache, price_dedupe,
                   items_created, prices_created, payer_style, runs, last, prev, skipped>>

\* GET /api/validate/<hospital_id>?status=approved|rejected, handled while
\* main() runs: the manifest is loaded, the entry changed, the manifest saved
ValidateRequest(hospital_id, status) ==
    /\ main.pc = "loop"
    /\ hospital_id \in DOMAIN CONFIG_MANIFEST
    /\ CONFIG_MANIFEST' = [CONFIG_MANIFEST EXCEPT ![hospital_id].validated =
                              IF status = "approved" THEN "True"
                              ELSE IF status = "rejected" THEN "False"
                              ELSE @]
    /\ UNCHANGED <<arg, ret, dataFile, configOf, hospital_name, main, proc, lock,
                   items, prices, cItems, cPrices, pc, cur, idx, item_cache, price_dedupe,
                   items_created, prices_created, payer_style, runs, last, prev, skipped>>

\* the first hospital has the tall file of the end-to-end scenario or no
\* file, the second the JSON file; every entry of the manifest is
\* validated, rejected or pending
InitManifest ==
    /\ \E f \in {CsvFile(TallColumns, <<ScenarioCells>>), NoFile} :
          dataFile = [h \in Hospitals |->
                         IF h = "H1" THEN f
                         ELSE [kind |-> "json", data |-> List(<<JsonScenarioRecord>>)]]
    /\ configOf = [h \in Hospitals |-> IF h = "H1" THEN TallConfig ELSE JsonConfig]
    /\ hospital_name = [h \in Hospitals |-> IF h = "H1" THEN n_St_Marys ELSE n_Mercy_West]
    /\ main = NoMain
    /\ \E v1, v2 \in {"True", "False", "None"}, s2 \in {"completed", "failed"} :
          CONFIG_MANIFEST = [h \in Hospitals |->
                                IF h = "H1" THEN Entry("completed", v1) ELSE Entry(s2, v2)]
    /\ BeforeBatch

NextManifest ==
    \/ \E args \in Args : MainStart(args)
    \/ MainIngest
    \/ TallRow
    \/ JsonRecord
    \/ FinishIngest
    \/ Record
    \/ MainEnd
    \/ \E h \in Hospitals, status \in {"approved", "rejected"} : ValidateRequest(h, status)

SpecManifest == InitManifest /\ [][NextManifest]_vars

-----------------------------------------------------------------------------
(* The batch over tall files read in column style with sibling columns      *)

t_varies == <<"V", "a", "r", "i", "e", "s">>

\* rows of a file with the columns of TallColumnsRate: payer, price (rate),
\* gross, and the two sibling columns
SiblingRow(payer, price, percentage, methodology) ==
    <<Str(t_99213), Str(s_CPT), Str(t_Office_Visit), Str(payer), price, Str(t_300_00),
      percentage, methodology>>

SiblingCells ==
    { SiblingRow(t_Aetna, Str(t_150_00), Str(t_45), Str(t_case_rate)),
      SiblingRow(t_Aetna, Str(t_varies), Str(t_45), Str(t_case_rate)),
      SiblingRow(t_Cigna, None, Str(t_45), Str(t_case_rate)),
      SiblingRow(t_Cigna, Str(t_blank), None, Str(t_case_rate)),
      SiblingRow(t_Cigna, Str(t_99999999), Str(t_blank), Str(t_case_rate)),
      SiblingRow(t_Cigna, Str(t_99999999), Str(t_blank), None) }

\* the descriptor with the sibling columns in the given order
SiblingConfig(siblings) ==
    [format_type |-> "tall", code_extraction |-> CodeExtraction,
     price_extraction |-> [payer_style |-> "column", price_column |-> Str(col_rate),
                           sibling_columns |-> siblings]]

SiblingOrders ==
    {<<col_negotiated_percentage, col_methodology>>,
     <<col_methodology, col_negotiated_percentage>>}

InitSibling ==
    /\ \E q \in SeqsUpTo(SiblingCells, MaxRows), siblings \in SiblingOrders :
          /\ dataFile = [h \in Hospitals |->
                            IF h = "H1" THEN CsvFile(TallColumnsRate, q)
                            ELSE CsvFile(TallColumns, <<ScenarioCells>>)]
          /\ configOf = [h \in Hospitals |->
                            IF h = "H1" THEN SiblingConfig(siblings) ELSE TallConfig]
    /\ hospital_name = [h \in Hospitals |-> IF h = "H1" THEN n_St_Marys ELSE n_Mercy_West]
    /\ BeforeBatch
    /\ NoManifest

\* the batch over tall files only
NextTall ==
    \/ \E h \in Hospitals : StartIngest(h)
    \/ TallRow
    \/ FinishIngest

SpecSibling == InitSibling /\ [][NextTall]_vars

-----------------------------------------------------------------------------
(* The batch over tall files whose descriptor sets columns to null or names *)
(* columns the file does not have                                           *)

col_missing == << <<"m", "i", "s", "s", "i", "n", "g">> >>

\* descriptors for a file with the columns of TallColumnsRate: every column
\* of price_extraction named as it is in the file, set to null, or named
\* after a column that is not in the file
NullConfigs ==
    {[format_type |-> "tall", code_extraction |-> CodeExtraction,
      price_extraction |->
         [payer_style |-> "column", payer_column |-> payer, plan_column |-> plan,
          price_column |-> price, gross_column |-> gross, cash_column |-> cash,
          sibling_columns |-> siblings]] :
        payer \in {Str(col_payer_name), None, Str(col_missing)},
        plan \in {None, Str(col_missing)},
        price \in {Str(col_rate), None, Str(col_missing)},
        gross \in {Str(col_gross), None, Str(col_missing)},
        cash \in {None, Str(col_missing)},
        siblings \in {<<>>, <<col_methodology>>}}

InitNull ==
    /\ \E q \in SeqsUpTo(RateCells, MaxRowsOther), c \in NullConfigs :
          /\ dataFile = [h \in Hospitals |->
                            IF h = "H1" THEN CsvFile(TallColumnsRate, q)
                            ELSE CsvFile(TallColumns, <<ScenarioCells>>)]
          /\ configOf = [h \in Hospitals |-> IF h = "H1" THEN c ELSE TallConfig]
    /\ hospital_name = [h \in Hospitals |-> IF h = "H1" THEN n_St_Marys ELSE n_Mercy_West]
    /\ BeforeBatch
    /\ NoManifest

SpecNull == InitNull /\ [][NextTall]_vars

-----------------------------------------------------------------------------
(* The batch run again after a hospital published a new file                *)

\* a tall file whose only row has no code
NoCodeCells ==
    <<None, None, Str(t_Office_Visit), Str(t_Aetna), Str(t_150_00), Str(t_300_00)>>

RefreshSources ==
    SampleSources
    \cup {[file |-> CsvFile(TallColumns, <<NoCodeCells>>), config |-> TallConfig]}

\* between two runs of main() the file of hospital h is downloaded anew
Download(h) ==
    /\ pc = "idle"
    /\ \E a \in RefreshSources :
          /\ a.file # dataFile[h]
          /\ dataFile' = [dataFile EXCEPT ![h] = a.file]
          /\ configOf' = [configOf EXCEPT ![h] = a.config]
    /\ UNCHANGED <<arg, ret, hospital_name, main, CONFIG_MANIFEST, proc, lock, items, prices, cItems, cPrices,
                   pc, cur, idx, item_cache, price_dedupe, items_created, prices_created,
                   payer_style, runs, last, prev, skipped>>

InitRefresh ==
    /\ \E a, b \in SampleSources :
          /\ dataFile = [h \in Hospitals |-> IF h = "H1" THEN a.file ELSE b.file]
          /\ configOf = [h \in Hospitals |-> IF h = "H1" THEN a.config ELSE b.config]
    /\ hospital_name = [h \in Hospitals |-> IF h = "H1" THEN n_St_Marys ELSE n_Mercy_West]
    /\ BeforeBatch
    /\ NoManifest

NextRefresh ==
    \/ Next
    \/ \E h \in Hospitals : Download(h)

SpecRefresh == InitRefresh /\ [][NextRefresh]_vars

-----------------------------------------------------------------------------
(* Two main() processes side by side, one for each hospital, each with its  *)
(* own session on the database file "sqlite:///hospital.db".  SQLite lets   *)
(* one connection write at a time: the first INSERT or DELETE of a          *)
(* transaction takes the write lock, the commit (or the close) gives it     *)
(* back, and every other connection reads the committed rows meanwhile.     *)
(* proc[h] holds the place of the process of hospital h and the locals of   *)
(* its loop; its items and prices are the session's rows while it holds     *)
(* the lock.                                                                *)

IdleProc ==
    [pc |-> "idle", idx |-> 0, items |-> {}, prices |-> {}, item_cache |-> <<>>,
     price_dedupe |-> {}, items_created |-> 0, prices_created |-> 0,
     payer_style |-> "column", outcome |-> "none"]

\* a store on which every connection may write at any time: with it in
\* place of CanWrite a commit overwrites what the other process committed
\* since the transaction began (C20)
AlwaysWrite(h) == TRUE

\* the connection of process h can take, or has, the write lock
CanWrite(h) == lock \in {"none", h}

\* the rows the session of process h sees
ViewItems(h) == IF lock = h THEN proc[h].items ELSE cItems

ViewPrices(h) == IF lock = h THEN proc[h].prices ELSE cPrices

ProcLocals(h) ==
    [items |-> ViewItems(h), prices |-> ViewPrices(h),
     item_cache |-> proc[h].item_cache, price_dedupe |-> proc[h].price_dedupe,
     items_created |-> proc[h].items_created,
     prices_created |-> proc[h].prices_created,
     payer_style |-> proc[h].payer_style, err |-> FALSE, skip |-> FALSE]

OnlyProc == <<arg, ret, dataFile, configOf, hospital_name, main, CONFIG_MANIFEST, items, prices, pc, cur, idx,
              item_cache, price_dedupe, items_created, prices_created, payer_style,
              last, prev, skipped>>

\* main() of hospital h up to the first row: delete_hospital_data, which
\* commits when it deleted rows, and the load of the file
ProcStart(h) ==
    /\ proc[h].pc = "idle"
    /\ runs < MaxRuns
    /\ runs' = runs + 1
    /\ \E d \in {delete_hospital_data(cItems, cPrices, db_hospital_id(h))} :
          /\ d.commit => CanWrite(h)
          /\ cItems' = d.items
          /\ cPrices' = d.prices
    /\ proc' = [proc EXCEPT ![h] =
                    IF dataFile[h].kind = "json" /\ JsonRecords(dataFile[h].data) = <<>>
                    THEN [IdleProc EXCEPT !.outcome = "failure"]
                    ELSE [IdleProc EXCEPT
                            !.pc = "rows",
                            !.payer_style =
                                Get(Get(configOf[h], "price_extraction", EmptyDict),
                                    "payer_style", "column")]]
    /\ UNCHANGED lock
    /\ UNCHANGED OnlyProc

\* one row of the loop of process h, with its periodic commit
ProcRow(h) ==
    /\ proc[h].pc = "rows"
    /\ proc[h].idx < Len(RowsOf(dataFile[h]))
    /\ \E st \in {RowOf(ProcLocals(h), h, proc[h].idx + 1)} :
        LET writes == st.items # ViewItems(h) \/ st.prices # ViewPrices(h)
            holds == lock = h \/ writes
            commits == ~st.err /\ ~st.skip /\ proc[h].idx % COMMIT_EVERY = 0
            ends == st.err \/ commits
        IN  /\ writes => CanWrite(h)
            /\ lock' = IF holds /\ ~ends THEN h
                        ELSE IF holds THEN "none"
                        ELSE lock
            /\ cItems' = IF holds /\ commits THEN st.items ELSE cItems
            /\ cPrices' = IF holds /\ commits THEN st.prices ELSE cPrices
            /\ proc' = [proc EXCEPT ![h] =
                  IF st.err
                  THEN \* ingest_hospital returns the failure, main() closes
                       \* the session
                       [IdleProc EXCEPT !.outcome = "failure"]
                  ELSE [pc |-> "rows", idx |-> proc[h].idx + 1,
                        items |-> IF holds /\ ~ends THEN st.items ELSE {},
                        prices |-> IF holds /\ ~ends THEN st.prices ELSE {},
                        item_cache |-> st.item_cache,
                        price_dedupe |-> st.price_dedupe,
                        items_created |-> st.items_created,
                        prices_created |-> st.prices_created,
                        payer_style |-> st.payer_style,
                        outcome |-> "none"]]
    /\ UNCHANGED runs
    /\ UNCHANGED OnlyProc

\* the final commit of the loop, the return of ingest_hospital and the end
\* of main()
ProcFinish(h) ==
    /\ proc[h].pc = "rows"
    /\ proc[h].idx = Len(RowsOf(dataFile[h]))
    /\ cItems' = ViewItems(h)
    /\ cPrices' = ViewPrices(h)
    /\ lock' = IF lock = h THEN "none" ELSE lock
    /\ proc' = [proc EXCEPT ![h] =
                    [IdleProc EXCEPT !.outcome = "success",
                                     !.items_created = proc[h].items_created,
                                     !.prices_created = proc[h].prices_created]]
    /\ UNCHANGED runs
    /\ UNCHANGED OnlyProc

\* files of two rows, one for each loop
PairSources ==
    {[file |-> CsvFile(TallColumns, <<ScenarioCells, CignaCells>>), config |-> TallConfig],
     [file |-> CsvFile(WideColumns, <<WideScenarioCells, WideScenarioCells>>),
      config |-> WideConfig],
     [file |-> [kind |-> "json", data |-> List(<<JsonScenarioRecord, JsonPlaceholderRecord>>)],
      config |-> JsonConfig]}

InitTwo ==
    /\ \E a \in PairSources \cup (SampleSources \ {[file |-> NoFile, config |-> TallConfig]}),
          b \in PairSources :
          /\ dataFile = [h \in Hospitals |-> IF h = "H1" THEN a.file ELSE b.file]
          /\ configOf = [h \in Hospitals |-> IF h = "H1" THEN a.config ELSE b.config]
    /\ hospital_name = [h \in Hospitals |-> IF h = "H1" THEN n_St_Marys ELSE n_Mercy_West]
    /\ NoManifest
    /\ arg = Pending
    /\ ret = Pending
    /\ proc = [h \in Hospitals |-> IdleProc]
    /\ lock = "none"
    /\ items = {}
    /\ prices = {}
    /\ cItems = {}
    /\ cPrices = {}
    /\ pc = "two"
    /\ cur = "none"
    /\ idx = 0
    /\ item_cache = <<>>
    /\ price_dedupe = {}
    /\ items_created = 0
    /\ prices_created = 0
    /\ payer_style = "column"
    /\ runs = 0
    /\ last = NoOutcome
    /\ prev = NoOutcome
    /\ skipped = {}

NextTwo ==
    \/ \E h \in Hospitals : ProcStart(h)
    \/ \E h \in Hospitals : ProcRow(h)
    \/ \E h \in Hospitals : ProcFinish(h)

SpecTwo == InitTwo /\ [][NextTwo]_vars

-----------------------------------------------------------------------------
(* The value parser on its own: parse_price applied to one raw cell         *)

\* characters of the generated cells
CellChars == {"1", "9", ".", "$", " "}


\* raw cells: None / NaN, every text of at most n characters, the two
\* texts around the default threshold, JSON numbers, and JSON objects and
\* lists as a nested price field can hold them
PriceCells(n) ==
    {None}
    \cup {Str(q) : q \in SeqsUpTo(CellChars, n)}
    \cup {Str(t_99999999), Str(t_99999998), Str(t_1234_50), Str(t_150_00)}
    \cup {JNum(t_99999999), JNum(t_99999998), JNum(t_19)}
    \cup {Dict([amount |-> JNum(t_19)]), List(<<JNum(t_19)>>), List(<<None>>),
          List(<<JNum(t_19), JNum(t_200)>>)}

\* skip rules: none, or a placeholder_threshold of the descriptor
SkipRules == {EmptyDict, [placeholder_threshold |-> 19], [placeholder_threshold |-> 2]}

\* the variables of the ingestor, which the pure functions never touch
NoIngestion ==
    /\ NoManifest
    /\ dataFile = <<>>
    /\ configOf = <<>>
    /\ hospital_name = <<>>
    /\ proc = <<>>
    /\ lock = "none"
    /\ items = {}
    /\ prices = {}
    /\ cItems = {}
    /\ cPrices = {}
    /\ pc = "pure"
    /\ cur = "none"
    /\ idx = 0
    /\ item_cache = <<>>
    /\ price_dedupe = {}
    /\ items_created = 0
    /\ prices_created = 0
    /\ payer_style = "column"
    /\ runs = 0
    /\ last = NoOutcome
    /\ prev = NoOutcome
    /\ skipped = {}

IngestionVars ==
    <<dataFile, configOf, hospital_name, main, CONFIG_MANIFEST, proc, lock, items, prices, cItems, cPrices,
      pc, cur, idx,
      item_cache, price_dedupe, items_created, prices_created, payer_style,
      runs, last, prev, skipped>>

InitParse ==
    /\ arg \in {[price_str |-> c, skip_rules |-> r] : c \in PriceCells(MaxLen), r \in SkipRules}
    /\ ret = Pending
    /\ NoIngestion

ApplyParse ==
    /\ ret = Pending
    /\ ret' = parse_price(arg.price_str, arg.skip_rules)
    /\ UNCHANGED <<arg, IngestionVars>>

SpecParse == InitParse /\ [][ApplyParse]_vars

-----------------------------------------------------------------------------
(* The code resolver of the preview: extract_code of extractors.py, called  *)
(* by extract_mapped_sample of preview_cards.py.  With is_json the row is a *)
(* dict (a missing value is None), without it a pandas Series (NaN).        *)

\* safe_get_value(row, col_name, default)
safe_get_value(row, col_name, default, is_json) ==
    IF col_name \notin DOMAIN row THEN default
    ELSE IF isna(row[col_name]) THEN (IF is_json THEN None ELSE default)
    ELSE row[col_name]

\* values that are taken for the content of a type column
TYPE_WORDS ==
    {s_CPT, s_HCPCS, s_MS_DRG, s_APR_DRG, s_NDC, s_CDM, upper(s_Local), <<"R", "C">>,
     <<"I", "C", "D">>, <<"R", "E", "V", "E", "N", "U", "E">>}

\* for JSON a CSV-style name 'a|b' stands for the key 'a' when the record has
\* it
ActualCol(row, col, is_json) ==
    IF is_json /\ Len(col) > 1 /\ <<col[1]>> \in DOMAIN row THEN <<col[1]>> ELSE col

s_bar_type == <<"|", "t", "y", "p", "e">>

\* the type found under a column whose name holds '|type' and the name of
\* the code column (the first such column with a value; the rows of the
\* model have at most one)
TypeByPattern(row, col, is_json) ==
    LET found == {c \in DOMAIN row :
                     /\ contains(lower(Join(c)), s_bar_type)
                     /\ contains(Join(c), Join(col))
                     /\ ~isna(safe_get_value(row, c, None, is_json))}
    IN  IF found = {} THEN None
        ELSE Str(strip(strOf(row[CHOOSE c \in found : TRUE], is_json)))

\* the candidate of column i of the loop over the columns: code and scheme,
\* or no candidate where the body ends in "continue" or finds no code
PreviewCandidate(row, columns, type_columns, is_json, i) ==
    LET col == columns[i]
        actual_col == ActualCol(row, col, is_json)
        code_val == safe_get_value(row, actual_col, None, is_json)
        ex == extract_code_from_value(code_val)
        code == IF truthy(ex[1]) THEN ex[1].v ELSE strip(strOf(code_val, is_json))
        type_col == IF i <= Len(type_columns) /\ truthy(type_columns[i])
                    THEN ActualCol(row, type_columns[i].v, is_json)
                    ELSE <<>>
        type_val == safe_get_value(row, type_col, None, is_json)
        type1 == IF ~isna(type_val) THEN Str(strip(strOf(type_val, is_json))) ELSE ex[2]
        type2 == IF ~truthy(type1) \/ type1.v = UNKNOWN
                 THEN Or(TypeByPattern(row, col, is_json), type1)
                 ELSE type1
    IN  IF actual_col \notin DOMAIN row \/ isna(code_val) THEN [valid |-> FALSE]
        ELSE IF code_val.t = "str" /\ upper(strip(code_val.v)) \in TYPE_WORDS
             THEN [valid |-> FALSE]
        ELSE IF code = <<>> \/ code = s_nan THEN [valid |-> FALSE]
        ELSE [valid |-> TRUE, code |-> code,
              type |-> IF truthy(type2) THEN type2.v ELSE UNKNOWN]

RECURSIVE PreviewScan(_, _, _, _, _, _, _)
PreviewScan(row, columns, type_columns, priority, is_json, i, best) ==
    IF i > Len(columns) THEN best
    ELSE Only({PreviewScan(row, columns, type_columns, priority, is_json, i + 1,
                  IF c.valid /\ priority_of(priority, c.type) < best.priority
                  THEN [code |-> c.code, type |-> c.type,
                        priority |-> priority_of(priority, c.type)]
                  ELSE best) :
                c \in {PreviewCandidate(row, columns, type_columns, is_json, i)}})

\* the old-style single column branch
PreviewLegacyCode(row, config, is_json) ==
    LET code_col == Get(config, "code_column", col_code_1)
        type_col == Get(config, "code_type_column", None)
        code_val == safe_get_value(row, ActualCol(row, code_col, is_json), None, is_json)
        ex == extract_code_from_value(code_val)
        code_type == IF truthy(type_col)
                     THEN safe_get_value(row, type_col.v, Str(UNKNOWN), is_json)
                     ELSE Str(UNKNOWN)
    IN  IF is_json /\ ~isna(code_val) /\ truthy(ex[1])
        THEN <<ex[1].v, Or(ex[2], Str(UNKNOWN))>>
        ELSE <<IF truthy(code_val) THEN strip(strOf(code_val, is_json)) ELSE UNKNOWN,
               code_type>>

\* extract_code(row, config, is_json) of extractors.py: <<code, code_type>>.
\* The descriptors of the model name no type column in the list of the code
\* columns, so the list is taken as it is.
preview_extract_code(row, config, is_json) ==
    LET code_ext == Get(config, "code_extraction", EmptyDict)
        columns == Get(code_ext, "columns", <<>>)
        type_columns == Get(code_ext, "type_columns", <<>>)
        priority == Get(code_ext, "priority", DEFAULT_PRIORITY)
        best == PreviewScan(row, columns, type_columns, priority, is_json, 1,
                            [code |-> UNKNOWN, type |-> UNKNOWN, priority |-> NO_PRIORITY])
    IN  IF columns = <<>> THEN PreviewLegacyCode(row, config, is_json)
        ELSE <<best.code, Str(best.type)>>

-----------------------------------------------------------------------------
(* The code resolver on its own: extract_code applied to one row            *)

t_12345 == <<"1", "2", "3", "4", "5">>
t_A1234 == <<"A", "1", "2", "3", "4">>
t_A123B == <<"A", "1", "2", "3", "B">>
t_1234 == <<"1", "2", "3", "4">>
t_XYZ == <<"X", "Y", "Z">>

ColumnNumbers == <<"1", "2", "3", "4", "5", "6", "7", "8", "9">>

\* the columns "code|i" and "code|i|type"
CodeCol(i) == <<s_code, <<ColumnNumbers[i]>>>>
TypeCol(i) == <<s_code, <<ColumnNumbers[i]>>, s_type>>

\* a code cell with the type cell next to it
CodeCells ==
    { <<Str(t_12345), Str(s_Local)>>,
      <<Str(t_A1234), Str(s_HCPCS)>>,
      <<Str(t_A123B), Str(s_CPT)>>,
      <<Str(t_1234), Str(s_CPT)>>,
      <<Str(t_99213), None>>,
      <<Str(t_12345), Str(t_XYZ)>>,
      <<None, None>> }

\* the row with the code columns code|1 .. code|k and their type columns
CodeRow(cells) ==
    [c \in {CodeCol(i) : i \in 1..Len(cells)} \cup {TypeCol(i) : i \in 1..Len(cells)} |->
        LET i == CHOOSE j \in 1..Len(cells) : c \in {CodeCol(j), TypeCol(j)}
        IN  IF c = CodeCol(i) THEN cells[i][1] ELSE cells[i][2]]

Orderings(k) ==
    {q \in [1..k -> 1..k] : \A i, j \in 1..k : q[i] = q[j] => i = j}

\* priority lists of a descriptor; <<>> stands for "not given"
Priorities == {<<>>, <<s_HCPCS, s_Local>>, <<s_Local, s_HCPCS, s_CPT>>}

\* the descriptor that lists the code columns in the order q
CodeConfig(q, typed, priority, auto_normalize) ==
    [code_extraction |->
        [columns |-> [j \in 1..Len(q) |-> CodeCol(q[j])],
         type_columns |-> IF typed THEN [j \in 1..Len(q) |-> Str(TypeCol(q[j]))] ELSE <<>>]
        @@ (IF priority = <<>> THEN <<>> ELSE [priority |-> priority])
        @@ (IF auto_normalize THEN <<>> ELSE [auto_normalize |-> FALSE])]

\* the old-style descriptor without a column list
LegacyConfig == [code_column |-> col_code_1, code_type_column |-> Str(TypeCol(1))]

CodeConfigs(k) ==
    {CodeConfig(q, typed, priority, auto_normalize) :
        q \in Orderings(k), typed \in BOOLEAN, priority \in Priorities,
        auto_normalize \in BOOLEAN}
    \cup {LegacyConfig}

InitCode ==
    /\ \E k \in 1..MaxCodeCols :
          \E cells \in [1..k -> CodeCells], c \in CodeConfigs(k), j \in BOOLEAN :
              arg = [row |-> CodeRow(cells), config |-> c, is_json |-> j]
    /\ ret = Pending
    /\ NoIngestion

ApplyCode ==
    /\ ret = Pending
    /\ ret' = extract_code(arg.row, arg.config, arg.is_json)
    /\ UNCHANGED <<arg, IngestionVars>>

SpecCode == InitCode /\ [][ApplyCode]_vars

-----------------------------------------------------------------------------
(* The setting resolver on its own: extract_setting applied to one row      *)

t_inpatient == <<"i", "n", "p", "a", "t", "i", "e", "n", "t">>
t_facility == <<"f", "a", "c", "i", "l", "i", "t", "y">>
t_professional ==
    <<"p", "r", "o", "f", "e", "s", "s", "i", "o", "n", "a", "l">>

\* stands for a column (or key) that the row does not have
Absent == [t |-> "absent"]

\* the function with the given keys, without those whose value is Absent
WithoutAbsent(keys, values) ==
    [k \in {keys[i] : i \in {j \in 1..Len(keys) : values[j] # Absent}} |->
        values[CHOOSE i \in 1..Len(keys) : keys[i] = k]]

\* a top-level or nested cell of the primary and of the fallback column
PrimaryCells == {Absent, None, Str(<<>>), Str(t_blank), Str(t_outpatient)}
FallbackCells == {Absent, None, Str(t_blank), Str(t_facility)}
NestedPrimaryCells == {Absent, Str(t_blank), Str(t_inpatient)}
NestedFallbackCells == {Absent, Str(t_blank), Str(t_professional)}

\* the value of standard_charges: absent, an object, or a list of one object
NestedCells ==
    {Absent}
    \cup {Dict(WithoutAbsent(<<col_setting, col_billing_class>>, <<p, f>>)) :
            p \in NestedPrimaryCells, f \in NestedFallbackCells}
    \cup {List(<<Dict(WithoutAbsent(<<col_setting, col_billing_class>>, <<p, f>>))>>) :
            p \in NestedPrimaryCells, f \in NestedFallbackCells}

SettingConfigs == {EmptyDict, [setting_extraction |-> [default |-> Str(s_Unknown)]]}

InitSetting ==
    /\ \E p \in PrimaryCells, f \in FallbackCells, n \in NestedCells,
          c \in SettingConfigs, j \in BOOLEAN :
          \* a CSV row has no nested value and no None that is not NaN
          /\ j \/ n = Absent
          /\ arg = [row |-> WithoutAbsent(<<col_setting, col_billing_class,
                                            col_standard_charges>>, <<p, f, n>>),
                    config |-> c, is_json |-> j]
    /\ ret = Pending
    /\ NoIngestion

ApplySetting ==
    /\ ret = Pending
    /\ ret' = extract_setting(arg.row, arg.config, arg.is_json)
    /\ UNCHANGED <<arg, IngestionVars>>

SpecSetting == InitSetting /\ [][ApplySetting]_vars

-----------------------------------------------------------------------------
(* Properties of the ingestor (specification Spec)                          *)

\* C1: when two ingestions in succession are of the same hospital (the file
\* and the descriptor never change), the second reports the same counts as
\* the first and leaves the store with the same numbers of items and offers
\* of that hospital; and after every successful ingestion the store holds for
\* the hospital exactly the items and offers that run created, nothing left
\* over from an earlier run.
C1_Idempotent ==
    /\ (last.hospital # "none" /\ prev.hospital = last.hospital) =>
          /\ last.success = prev.success
          /\ last.items = prev.items
          /\ last.prices = prev.prices
          /\ last.storeItems = prev.storeItems
          /\ last.storePrices = prev.storePrices
    /\ (last.hospital # "none" /\ last.success) =>
          /\ last.storeItems = last.items
          /\ last.storePrices = last.prices

C1_Witness ==
    /\ pc = "idle"
    /\ prev.hospital = last.hospital
    /\ prev.hospital = "H1"
    /\ prev.success
    /\ last.success
    /\ last.storeItems = 2
    /\ last.storePrices > 2
    /\ \E i \in items : i.hospital_id = db_hospital_id("H2")

\* the rows of hospital h among the items its and the offers prs
ItemsIn(its, h) == {i \in its : i.hospital_id = db_hospital_id(h)}

PricesIn(its, prs, h) == {p \in prs : \E i \in ItemsIn(its, h) : i.id = p.item_id}

ItemsOf(h) == ItemsIn(items, h)

PricesOf(h) == PricesIn(items, prices, h)

\* C2: after the tall file of the end-to-end scenario (one row: code|1 99213,
\* code|1|type CPT, description Office Visit, payer_name Aetna,
\* standard_charge|negotiated_dollar 150.00, standard_charge|gross 300.00) was
\* ingested with a descriptor whose payer_style is 'column', the store holds
\* for the hospital exactly one item 99213 / CPT / Office Visit with exactly
\* the two offers Aetna / 150.00 and GROSS / 300.00.
C2_ColumnScenario ==
    \A h \in Hospitals :
        (/\ pc = "idle"
         /\ last.hospital = h
         /\ last.success
         /\ dataFile[h] = CsvFile(TallColumns, <<ScenarioCells>>)
         /\ configOf[h] = TallConfig)
        => /\ Cardinality(ItemsOf(h)) = 1
           /\ {<<i.code, i.code_type, i.description>> : i \in ItemsOf(h)}
                 = {<<t_99213, Str(s_CPT), t_Office_Visit>>}
           /\ Cardinality(PricesOf(h)) = 2
           /\ {<<p.payer, p.amount>> : p \in PricesOf(h)}
                 = {<<t_Aetna, Float(150, 0)>>, <<s_GROSS, Float(300, 0)>>}

\* C3: every stored offer carries an amount or a note that is not empty.
C3_OfferHasContent ==
    \A p \in prices : ~isna(p.amount) \/ (~isna(p.notes) /\ p.notes.v # <<>>)

\* C4: after an ingestion run the store holds no two offers with the same
\* (item, payer, plan, amount, notes).
C4_NoDuplicateOffer ==
    pc = "idle" =>
        \A p, q \in prices :
            (/\ p.item_id = q.item_id
             /\ p.payer = q.payer
             /\ p.plan = q.plan
             /\ p.amount = q.amount
             /\ p.notes = q.notes) => p = q

\* C5: after an ingestion run the store holds at most one item per
\* (code, description, setting, hospital).
C5_OneItemPerIdentity ==
    pc = "idle" =>
        \A i, j \in items :
            (/\ i.code = j.code
             /\ i.description = j.description
             /\ i.setting = j.setting
             /\ i.hospital_id = j.hospital_id) => i = j

\* the code the resolver returns for the row the running loop is at
CurrentCode ==
    IF dataFile[cur].kind = "json"
    THEN extract_code(RowsOf(dataFile[cur])[idx + 1].d, configOf[cur], TRUE)[1]
    ELSE extract_code(dataFile[cur].rows[idx + 1], configOf[cur], FALSE)[1]

AtUnknownRow ==
    /\ pc = "rows"
    /\ idx < Len(RowsOf(dataFile[cur]))
    /\ CurrentCode = UNKNOWN

\* C6: the step of a loop (tall, wide or JSON) over a row whose code resolves
\* to 'UNKNOWN' moves to the next row and changes neither the items, nor the
\* offers, nor the item cache, nor the dedup set, nor the counters.
C6_UnknownRowSkipped ==
    [][AtUnknownRow =>
          /\ idx' = idx + 1
          /\ UNCHANGED <<items, prices, cItems, cPrices, item_cache, price_dedupe,
                         items_created, prices_created>>]_vars

C6_Witness ==
    /\ pc = "rows"
    /\ LoopOf(dataFile[cur], configOf[cur]) = "tall"
    /\ idx = 2
    /\ skipped = {1}
    /\ dataFile[cur].rows[2][col_gross] = Str(t_300_00)
    /\ items_created = 1
    /\ Cardinality(price_dedupe) = 2

\* the note the specification gives an offer that has only a percentage
PercentageNote(value, methodology) ==
    Str(<<"P", "E", "R", "C", "E", "N", "T", "A", "G", "E", ":", " ">> \o value
        \o <<"%", " ", "(">> \o methodology \o <<")">>)

\* the payer entries of a JSON record of the model
PayerEntries(rec) ==
    UNION { Range(charge.d[key_payers_information].l) :
                charge \in Range(rec.d[col_standard_charges].l) }

\* C13: after a successful ingestion, (column style) every row of a tall file
\* with a resolvable code, a payer, a price cell that parses to (null, null)
\* and a percentage in the configured sibling column has a stored offer of
\* its payer with the note 'PERCENTAGE: <value>% (<methodology>)', and
\* (nested JSON) so has every payer entry of a record with a resolvable code
\* that carries a percentage and no dollar amount.
C13_PercentageOffer ==
    \A h \in Hospitals :
        (pc = "idle" /\ last.hospital = h /\ last.success) =>
            /\ configOf[h] = TallConfigRate =>
                  \A k \in 1..Len(dataFile[h].rows) :
                      LET row == dataFile[h].rows[k]
                      IN  (/\ ~SkipRow(extract_code(row, configOf[h], FALSE)[1])
                           /\ truthy(row[col_payer_name])
                           /\ parse_price(row[col_rate], EmptyDict) = <<None, None>>
                           /\ ~isna(row[col_negotiated_percentage]))
                          => \E p \in PricesOf(h) :
                                /\ p.payer = strip(str(row[col_payer_name]))
                                /\ p.notes = PercentageNote(row[col_negotiated_percentage].v,
                                                            row[col_methodology].v)
            /\ dataFile[h].kind = "json" =>
                  \A rec \in Range(RowsOf(dataFile[h])) :
                      ~SkipRow(extract_code(rec.d, configOf[h], TRUE)[1]) =>
                          \A o \in PayerEntries(rec) :
                              (/\ "negotiated_percentage" \in DOMAIN o.d
                               /\ "estimated_amount" \notin DOMAIN o.d
                               /\ "negotiated_dollar" \notin DOMAIN o.d)
                              => \E p \in PricesOf(h) :
                                    /\ p.payer = o.d.payer_name.v
                                    /\ p.notes = PercentageNote(o.d.negotiated_percentage.v,
                                                                o.d.methodology.v)

\* the running loop is at a row with a resolvable code that it processes in
\* header style
AtHeaderRow ==
    /\ pc = "rows"
    /\ idx < Len(RowsOf(dataFile[cur]))
    /\ \/ LoopOf(dataFile[cur], configOf[cur]) = "wide"
       \/ /\ LoopOf(dataFile[cur], configOf[cur]) = "tall"
          /\ DetectStyle(payer_style, dataFile[cur].columns) = "header"
    /\ ~SkipRow(CurrentCode)

CurrentRow == dataFile[cur].rows[idx + 1]

\* a column named '<prefix>|<P>|negotiated_dollar', '<prefix>|<P>|<L>|negotiated_dollar'
\* or the same with estimated_amount
IsPatternCol(col) ==
    /\ Len(col) >= 3
    /\ col[Len(col)] \in {s_negotiated_dollar, s_estimated_amount}

\* the value of a cell as an amount, None when it is not one
CellAmount(cell) == parse_price(cell, Get(configOf[cur], "skip_rules", EmptyDict))[1]

\* the plan a pattern column names
PatternPlan(col) ==
    IF col[3] \in {s_negotiated_dollar, s_estimated_amount} THEN None ELSE Str(col[3])

\* after the step: the item of the row the step processed
RowItemId ==
    IF LoopOf(dataFile[cur], configOf[cur]) = "wide"
    THEN (CHOOSE i \in items' \ items : TRUE).id
    ELSE item_cache'[<<CurrentCode, CsvDescription(CurrentRow, configOf[cur]),
                       extract_setting(CurrentRow, configOf[cur], FALSE)>>]

IsNegotiatedCol(col) ==
    /\ Len(col) >= 2
    /\ col[Len(col)] \in {s_negotiated_dollar, s_estimated_amount}

\* C15: every offer that the step of a header-style loop adds is the gross
\* or the discounted-cash offer, or has the payer segment and the amount of
\* a column of the row whose name matches the negotiated-price or
\* estimated-amount pattern.
C15_OnlyPatternColumns ==
    [][AtHeaderRow =>
          \A p \in prices' \ prices :
              \/ p.payer \in {s_GROSS, s_DISCOUNTED_CASH}
              \/ \E c \in Range(dataFile[cur].columns) :
                    /\ IsNegotiatedCol(c)
                    /\ p.payer = c[2]
                    /\ p.amount = CellAmount(CurrentRow[c])
                    /\ ~isna(p.amount)]_vars

\* the hospital whose ingest_hospital call the step belongs to
StepHospital ==
    IF pc = "rows" THEN cur
    ELSE IF pc' = "rows" THEN cur'
    ELSE last'.hospital

\* C16: for two hospitals of the manifest with different names, no step of
\* the ingestion of one changes the stored items or offers of the other
\* (the rows under the other's store hospital id).
C16_OtherHospitalUntouched ==
    [][\A a, b \in Hospitals :
          (/\ hospital_name[a] # hospital_name[b]
           /\ pc \in {"idle", "rows"}
           /\ StepHospital = a)
          => /\ ItemsIn(items', b) = ItemsIn(items, b)
             /\ PricesIn(items', prices', b) = PricesIn(items, prices, b)]_vars

\* the file of hospital h makes ingest_hospital fail: it is missing, cannot
\* be decoded, holds no records, or one of its records makes the loop raise
FailingFile(h) ==
    \/ dataFile[h] = NoFile
    \/ /\ dataFile[h].kind = "json"
       /\ \/ dataFile[h].data = Malformed
          \/ JsonRecords(dataFile[h].data) = <<>>
          \/ \E rec \in Range(JsonRecords(dataFile[h].data)) :
                /\ ~SkipRow(extract_code(rec.d, configOf[h], TRUE)[1])
                /\ \E o \in Range(JsonOffers(rec.d, Get(configOf[h], "price_extraction",
                                                        EmptyDict),
                                              Get(configOf[h], "skip_rules", EmptyDict))) :
                      o = Raises

C18_ZeroItemsSignalled ==
    \A h \in Hospitals :
        (/\ pc = "idle"
         /\ prev # NoOutcome
         /\ prev.hospital = h
         /\ last.hospital = h
         /\ prev.storeItems > 0
         /\ last.items = 0)
        => ~last.success

\* the locals of an ingestion of hospital h that starts on an empty store
CleanLocals(h) ==
    [items |-> {}, prices |-> {}, item_cache |-> <<>>, price_dedupe |-> {},
     items_created |-> 0, prices_created |-> 0,
     payer_style |-> Get(Get(configOf[h], "price_extraction", EmptyDict),
                         "payer_style", "column"),
     err |-> FALSE, skip |-> FALSE]

\* a single run of hospital h on an empty store, from row k on
RECURSIVE CleanRun(_, _, _)
CleanRun(st, h, k) ==
    IF k > Len(RowsOf(dataFile[h])) THEN st
    ELSE Only({CleanRun([s EXCEPT !.skip = FALSE], h, k + 1) : s \in {RowOf(st, h, k)}})

\* items and offers without their ids: how many there are, and every item
\* with the set of its offers
Shape(its, prs) ==
    [n_items |-> Cardinality(its),
     n_prices |-> Cardinality(prs),
     rows |-> {<<i.code, i.code_type, i.description, i.setting, i.hospital_id,
                 {<<p.payer, p.plan, p.amount, p.notes>> :
                     p \in {q \in prs : q.item_id = i.id}}>> : i \in its}]

\* C19: after a complete run for a hospital, whatever runs were made or
\* stopped before it and whatever part of them was committed, the store --
\* the session's view and the committed rows -- holds for the hospital
\* exactly the items and offers that a single run on an empty store leaves,
\* and the run reports the counts of that run.
C19_SelfHealing ==
    \A h \in Hospitals :
        (pc = "idle" /\ last # NoOutcome /\ last.hospital = h /\ last.success) =>
            \A clean \in {CleanRun(CleanLocals(h), h, 1)} :
                /\ Shape(ItemsOf(h), PricesOf(h)) = Shape(clean.items, clean.prices)
                /\ Shape(ItemsIn(cItems, h), PricesIn(cItems, cPrices, h))
                      = Shape(clean.items, clean.prices)
                /\ last.items = clean.items_created
                /\ last.prices = clean.prices_created

\* the run of H1 was stopped after a part of its rows was committed, the
\* run after it went through both rows of the file
C19_Witness ==
    /\ pc = "idle"
    /\ prev # NoOutcome
    /\ prev.hospital = "H1"
    /\ prev.error = "stopped"
    /\ prev.storeItems = 1
    /\ last.hospital = "H1"
    /\ last.success
    /\ last.items = 2
    /\ ItemsOf("H2") # {}

\* C21: with the periodic commit of the loops (tall, wide, JSON) taken
\* after every row, every 1000 rows or never before the end, in any mix, a
\* run that completes leaves for the hospital, in the session and in the
\* committed store, the same items and offers (ids aside) and returns the
\* same counts: those of the loop computed with no commit at all; and while
\* the loop runs the committed rows of the hospital are rows of the session.
C21_CommitInterval ==
    /\ \A h \in Hospitals :
          (pc = "idle" /\ last # NoOutcome /\ last.hospital = h /\ last.success) =>
              \A clean \in {CleanRun(CleanLocals(h), h, 1)} :
                  /\ Shape(ItemsIn(cItems, h), PricesIn(cItems, cPrices, h))
                        = Shape(clean.items, clean.prices)
                  /\ ItemsIn(cItems, h) = ItemsOf(h)
                  /\ PricesIn(cItems, cPrices, h) = PricesOf(h)
                  /\ last.items = clean.items_created
                  /\ last.prices = clean.prices_created
    /\ pc = "rows" =>
          /\ ItemsIn(cItems, cur) \subseteq ItemsOf(cur)
          /\ PricesIn(cItems, cPrices, cur) \subseteq PricesOf(cur)

\* two complete runs of the two-row file of H1 went through both rows and
\* created two items
C21_Witness ==
    /\ pc = "idle"
    /\ prev # NoOutcome
    /\ prev.hospital = "H1"
    /\ prev.success
    /\ last.hospital = "H1"
    /\ last.success
    /\ last.items = 2
    /\ last.prices > 2
    /\ idx = 2
    /\ skipped = {}

\* C22: in a main() started without --force-all, in batch mode or with
\* --hospital-id, every hospital for which ingest_hospital was called (its
\* rows deleted, its file ingested) has validated == true in the manifest
\* main() loaded.
C22_OnlyValidated ==
    (main.pc = "loop" /\ ~main.args.force_all) =>
        \A k \in 1..(runs - main.base) :
            main.manifest[main.to_ingest[k]].validated = "True"

\* the descriptor's price_extraction of the running ingestion
CurrentPriceExt == Get(configOf[cur], "price_extraction", EmptyDict)

\* the loop is at a row with a resolvable code and a payer, in column style
AtColumnRow ==
    /\ pc = "rows"
    /\ idx < Len(RowsOf(dataFile[cur]))
    /\ LoopOf(dataFile[cur], configOf[cur]) = "tall"
    /\ DetectStyle(payer_style, dataFile[cur].columns) = "column"
    /\ ~SkipRow(CurrentCode)
    /\ truthy(RowGet(CurrentRow, Get(CurrentPriceExt, "payer_column", Str(col_payer_name))))

\* the cell of the i-th sibling column of the descriptor holds a value
SiblingFilled(i) ==
    LET price_col == Get(CurrentPriceExt, "price_column", Str(col_negotiated_dollar)).v
        c == SiblingCol(price_col, CurrentPriceExt.sibling_columns[i])
    IN  /\ c \in DOMAIN CurrentRow
        /\ ~isna(CurrentRow[c])
        /\ strip(str(CurrentRow[c])) # <<>>

\* the note '<sibling>: <value>' of the i-th sibling column
SiblingText(i) ==
    LET price_col == Get(CurrentPriceExt, "price_column", Str(col_negotiated_dollar)).v
        sibling == CurrentPriceExt.sibling_columns[i]
    IN  Str(Join(sibling) \o <<":", " ">>
            \o strip(str(CurrentRow[SiblingCol(price_col, sibling)])))

\* C26: in column style, for a row with a resolvable code and a payer: when
\* the price column parses to an amount or a note, the payer's offer of the
\* row carries that amount and that note, never a sibling's value; when it
\* parses to neither, the note is that of the first sibling column, in the
\* order of the descriptor, whose cell is not empty, and there is no offer
\* when every sibling cell is empty; the row adds at most one offer for the
\* payer.
C26_SiblingLastResort ==
    [][AtColumnRow =>
        LET payer == strip(str(RowGet(CurrentRow,
                               Get(CurrentPriceExt, "payer_column", Str(col_payer_name)))))
            pp == parse_price(RowGet(CurrentRow, Get(CurrentPriceExt, "price_column",
                                                     Str(col_negotiated_dollar))),
                              Get(configOf[cur], "skip_rules", EmptyDict))
            n == Len(CurrentPriceExt.sibling_columns)
            added == {p \in prices' \ prices : p.payer = payer}
            Kept(amount, notes) == <<RowItemId, payer, None, amount, notes>> \in price_dedupe'
        IN  /\ Cardinality(added) <= 1
            /\ IF ~isna(pp[1]) \/ ~isna(pp[2])
               THEN /\ Kept(pp[1], pp[2])
                    /\ \A p \in added : p.amount = pp[1] /\ p.notes = pp[2]
               ELSE IF \E i \in 1..n : SiblingFilled(i)
               THEN \E i \in 1..n :
                       /\ SiblingFilled(i)
                       /\ \A j \in 1..(i - 1) : ~SiblingFilled(j)
                       /\ Kept(None, SiblingText(i))
                       /\ \A p \in added : isna(p.amount) /\ p.notes = SiblingText(i)
               ELSE added = {}]_vars

\* the second row of the file had a placeholder in the price column and an
\* empty first sibling: its offer carries the note of the second sibling,
\* next to the offer of the first row with its amount
C26_Witness ==
    /\ pc = "rows"
    /\ cur = "H1"
    /\ idx = 2
    /\ configOf[cur].price_extraction.sibling_columns
          = <<col_negotiated_percentage, col_methodology>>
    /\ dataFile[cur].rows[2][col_rate] = Str(t_99999999)
    /\ dataFile[cur].rows[2][col_methodology] = Str(t_case_rate)
    /\ \E p \in prices :
          /\ p.payer = t_Cigna
          /\ isna(p.amount)
          /\ p.notes = Str(s_methodology \o <<":", " ">> \o t_case_rate)
    /\ \E p \in prices : p.payer = t_Aetna /\ p.amount = Float(150, 0) /\ isna(p.notes)

\* C27: the ingestion of a tall file whose descriptor sets the payer, plan,
\* price, gross or cash column to null, or names for them a column the file
\* does not have, with or without sibling columns, does not fail, and the
\* rows of the file (all with a resolvable code) leave their item.
C27_NullColumnsTolerated ==
    (pc = "idle" /\ last # NoOutcome /\ last.hospital = "H1") =>
        /\ last.success
        /\ dataFile["H1"].rows # <<>> => last.items = 1 /\ last.storeItems = 1

\* C28: a save of the manifest by main() (every fifth hospital and at the
\* end of the batch) leaves the 'validated' value of every hospital as the
\* file held it, i.e. as the validation server wrote it last; and a request
\* handled by the validation server leaves the ingestion status of every
\* hospital ('ingested', the counts, the error) as the file held it.
C28_DecisionKept ==
    [][/\ (main.pc = "loop" /\ main' # main) =>
              \A h \in Hospitals :
                  CONFIG_MANIFEST'[h].validated = CONFIG_MANIFEST[h].validated
       /\ (main.pc = "loop" /\ main' = main) =>
              \A h \in Hospitals :
                  /\ CONFIG_MANIFEST'[h].ingested = CONFIG_MANIFEST[h].ingested
                  /\ CONFIG_MANIFEST'[h].items_count = CONFIG_MANIFEST[h].items_count
                  /\ CONFIG_MANIFEST'[h].prices_count = CONFIG_MANIFEST[h].prices_count
                  /\ CONFIG_MANIFEST'[h].ingest_error = CONFIG_MANIFEST[h].ingest_error]_vars

\* C29: while the latest outcome of the batch is the failure of hospital a,
\* no step of the ingestion of another hospital (its delete, a periodic
\* commit, its final commit) adds a row of a to the committed store: the
\* committed items and offers of a stay among those committed when the
\* failure was returned.
C29_FailedRowsDiscarded ==
    [][\A a \in Hospitals :
          (/\ last # NoOutcome
           /\ last.hospital = a
           /\ ~last.success
           /\ StepHospital # a) =>
              /\ ItemsIn(cItems', a) \subseteq ItemsIn(cItems, a)
              /\ PricesIn(cItems', cPrices', a) \subseteq PricesIn(cItems, cPrices, a)]_vars

\* the manifest entry e of hospital h, when it records h as ingested, holds
\* the numbers of items and offers the committed store holds for h
CountsRecorded(e, h) ==
    e.ingested = "True" =>
        /\ e.items_count = Cardinality(ItemsIn(cItems, h))
        /\ e.prices_count = Cardinality(PricesIn(cItems, cPrices, h))

\* C30: when ingest_hospital has returned success for hospital h, the counts
\* it returned are the numbers of items and of offers the committed store
\* holds for h, and every stored offer has the id of a stored item; the
\* entries main() has recorded as ingested in its manifest, and after the
\* final save the entries of the manifest file, hold those numbers as
\* items_count and prices_count.
C30_CountsMatchStore ==
    /\ (pc = "idle" /\ last # NoOutcome /\ last.success) =>
          /\ last.items = Cardinality(ItemsIn(cItems, last.hospital))
          /\ last.prices = Cardinality(PricesIn(cItems, cPrices, last.hospital))
          /\ \A p \in cPrices : \E i \in cItems : i.id = p.item_id
    /\ (main.pc = "loop" /\ pc = "idle") =>
          \A k \in 1..main.i :
              CountsRecorded(main.manifest[main.to_ingest[k]], main.to_ingest[k])
    /\ (main # NoMain /\ main.pc = "off") =>
          \A h \in Hospitals : CountsRecorded(CONFIG_MANIFEST[h], h)

\* a batch over both hospitals has ended: the manifest file records both as
\* ingested, the first with one item and more than one offer
C30_Witness ==
    /\ main # NoMain
    /\ main.pc = "off"
    /\ Len(main.to_ingest) = 2
    /\ CONFIG_MANIFEST["H1"].ingested = "True"
    /\ CONFIG_MANIFEST["H1"].items_count = 1
    /\ CONFIG_MANIFEST["H1"].prices_count > 1
    /\ CONFIG_MANIFEST["H2"].ingested = "True"
    /\ CONFIG_MANIFEST["H2"].items_count > 0
    /\ last.success

\* a step of the process of hospital a
StepOf(a) == proc'[a] # proc[a]

-----------------------------------------------------------------------------
(* Properties of the code resolver (specification SpecCode)                 *)

HasColumnList == "code_extraction" \in DOMAIN arg.config

ArgColumns == arg.config.code_extraction.columns

ArgPriority == Get(arg.config.code_extraction, "priority", DEFAULT_PRIORITY)

ArgAutoNormalize == Get(arg.config.code_extraction, "auto_normalize", TRUE)

\* candidate of the i-th listed column of the row under study
ArgCandidate(i) ==
    Candidate(arg.row, ArgColumns, arg.config.code_extraction.type_columns,
              arg.is_json, i)

ArgCandidates == {i \in 1..Len(ArgColumns) : ArgCandidate(i).valid}

ArgRank(i) == priority_of(ArgPriority, ArgCandidate(i).type)

\* the descriptor with its code columns (and type columns) in the order q
Reordered(config, q) ==
    [config EXCEPT
        !.code_extraction.columns = [j \in 1..Len(q) |-> @[q[j]]],
        !.code_extraction.type_columns =
            IF @ = <<>> THEN @ ELSE [j \in 1..Len(q) |-> @[q[j]]]]

\* C7: when the candidates of a row have schemes at pairwise distinct
\* positions of the priority list, the resolver returns the code of the
\* candidate with the lowest position (with that candidate's scheme, after
\* auto-normalization where it is on), and it returns the same for every
\* ordering of the code columns with the type columns permuted alongside.
C7_PriorityStable ==
    (/\ ret # Pending
     /\ HasColumnList
     /\ ArgCandidates # {}
     /\ \A i \in ArgCandidates :
           /\ ArgRank(i) < NO_PRIORITY
           /\ \A j \in ArgCandidates \ {i} : ArgRank(j) # ArgRank(i))
    => LET win == CHOOSE i \in ArgCandidates :
                      \A j \in ArgCandidates : ArgRank(i) <= ArgRank(j)
           c == ArgCandidate(win)
       IN  /\ ret[1] = c.code
           /\ ret[2] = Str(IF ArgAutoNormalize THEN AutoNormalize(c.code, c.type)
                           ELSE c.type)
           /\ \A q \in Orderings(Len(ArgColumns)) :
                 extract_code(arg.row, Reordered(arg.config, q), arg.is_json) = ret

C7_Witness ==
    /\ ret = <<t_A1234, Str(s_HCPCS)>>
    /\ arg.row = CodeRow(<< <<Str(t_12345), Str(s_Local)>>,
                            <<Str(t_A1234), Str(s_HCPCS)>> >>)
    /\ arg.config = CodeConfig(<<1, 2>>, TRUE, <<s_HCPCS, s_Local>>, TRUE)
    /\ ~arg.is_json

\* C8: with auto-normalization on, a winning code of exactly 5 characters
\* has scheme CPT when it is all digits and scheme HCPCS when its first
\* character is a letter; a winning code of another length keeps the scheme
\* the scan resolved.
C8_AutoNormalize ==
    (ret # Pending /\ HasColumnList /\ ArgAutoNormalize) =>
        /\ (Len(ret[1]) = 5 /\ isdigit(ret[1])) => ret[2] = Str(s_CPT)
        /\ (Len(ret[1]) = 5 /\ isalphaChar(ret[1][1])) => ret[2] = Str(s_HCPCS)
        /\ Len(ret[1]) # 5 =>
              ret[2] = Str(CodeScan(arg.row, ArgColumns,
                                    arg.config.code_extraction.type_columns,
                                    ArgPriority, arg.is_json, 1,
                                    [code |-> UNKNOWN, type |-> UNKNOWN,
                                     priority |-> NO_PRIORITY]).type)

\* C9: when the only candidate of a row has a scheme that is undeclared or
\* not in the priority list, the resolver returns that candidate's code, and
\* scheme CPT when the code is 5 digits and auto-normalization is on.
C9_SoleCandidateWins ==
    (/\ ret # Pending
     /\ HasColumnList
     /\ Cardinality(ArgCandidates) = 1
     /\ \A i \in ArgCandidates : ArgRank(i) = NO_PRIORITY)
    => \A i \in ArgCandidates :
          /\ ret[1] = ArgCandidate(i).code
          /\ (ArgAutoNormalize /\ Len(ret[1]) = 5 /\ isdigit(ret[1]))
                => ret[2] = Str(s_CPT)

\* C23: for every row and descriptor the code resolver of the preview
\* (extract_code of extractors.py) returns the pair (code, code_type) that the
\* code resolver of the bulk ingestor returns.
C23_PreviewMatchesIngest ==
    ret # Pending => ret = preview_extract_code(arg.row, arg.config, arg.is_json)

\* C24: whenever the code resolver returns the scheme CPT or HCPCS -- with
\* a list of code columns, with the old-style single code column, for CSV
\* rows and for JSON records -- the returned code is 5 characters long.
C24_FixedWidth ==
    (ret # Pending /\ ret[2] \in {Str(s_CPT), Str(s_HCPCS)}) => Len(ret[1]) = 5

\* the code columns the descriptor under study names
ArgCodeColumns ==
    IF HasColumnList THEN Range(ArgColumns)
    ELSE {Get(arg.config, "code_column", col_code_1)}

\* the column is not in the row, or its cell is missing (None / NaN) or blank
EmptyCell(row, col) ==
    \/ col \notin DOMAIN row
    \/ isna(row[col])
    \/ row[col].t = "str" /\ strip(row[col].v) = <<>>

\* C25: for a row in which no code column named by the descriptor holds a
\* value that is not empty, the code resolver returns ('UNKNOWN', 'UNKNOWN'),
\* with a list of code columns as with the old-style single code column.
C25_NoCodeIsUnknown ==
    (ret # Pending /\ \A col \in ArgCodeColumns : EmptyCell(arg.row, col))
        => ret = <<UNKNOWN, Str(UNKNOWN)>>

-----------------------------------------------------------------------------
(* Properties of the setting resolver (specification SpecSetting)           *)

\* the value of key col of the dict d is present and not blank
Filled(d, col) ==
    /\ col \in DOMAIN d
    /\ d[col].t = "str"
    /\ strip(d[col].v) # <<>>

\* the nested price-detail object of the row under study, <<>> if none
ArgNested ==
    IF ~arg.is_json \/ col_standard_charges \notin DOMAIN arg.row THEN <<>>
    ELSE IF arg.row[col_standard_charges].t = "list"
         THEN arg.row[col_standard_charges].l[1].d
    ELSE arg.row[col_standard_charges].d

ArgDefault ==
    Get(Get(arg.config, "setting_extraction", EmptyDict), "default", Str(UNKNOWN))

\* C12: the resolver returns the top-level primary value when present and
\* not blank, else the top-level fallback value, else (JSON) the nested
\* primary, then the nested fallback value, else the default; for CSV rows
\* and JSON records alike.
C12_SettingOrder ==
    ret # Pending =>
        ret = IF Filled(arg.row, col_setting)
              THEN Str(strip(arg.row[col_setting].v))
              ELSE IF Filled(arg.row, col_billing_class)
              THEN Str(strip(arg.row[col_billing_class].v))
              ELSE IF Filled(ArgNested, col_setting)
              THEN Str(strip(ArgNested[col_setting].v))
              ELSE IF Filled(ArgNested, col_billing_class)
              THEN Str(strip(ArgNested[col_billing_class].v))
              ELSE ArgDefault

-----------------------------------------------------------------------------
(* Properties of the value parser (specification SpecParse)                 *)

\* the number a raw cell is read as
ArgNumber == float(remove(remove(strip(PriceText(arg.price_str)), "$"), ","))

ArgThreshold == Get(arg.skip_rules, "placeholder_threshold", PLACEHOLDER_THRESHOLD)

\* C10: a numeric cell at or above the placeholder threshold parses to
\* (None, None) and a numeric cell below it to (value, None), the threshold
\* being the descriptor's placeholder_threshold where given and 99999999
\* otherwise; so '99999999' gives (None, None) and '99999998' gives
\* (99999998, None) under the default.
C10_PlaceholderBoundary ==
    /\ (ret # Pending /\ ~isna(arg.price_str) /\ ArgNumber.ok) =>
          ret = IF ArgNumber.val.m \div Pow10(ArgNumber.val.e) >= ArgThreshold
                THEN <<None, None>>
                ELSE <<ArgNumber.val, None>>
    /\ (ret # Pending /\ arg.price_str = Str(t_99999999) /\ arg.skip_rules = EmptyDict)
          => ret = <<None, None>>
    /\ (ret # Pending /\ arg.price_str = Str(t_99999998) /\ arg.skip_rules = EmptyDict)
          => ret = <<Float(99999998, 0), None>>

\* a raw cell that is missing or blank
ArgBlank == isna(arg.price_str) \/ strip(PriceText(arg.price_str)) = <<>>

\* C11: parse_price raises for no raw value; a blank or missing value gives
\* (None, None) and a value that is not blank and no number gives
\* (None, trimmed text).
C11_NeverRaises ==
    ret # Pending =>
        /\ ret # ValueError
        /\ ArgBlank => ret = <<None, None>>
        /\ (~ArgBlank /\ ~ArgNumber.ok) =>
              ret = <<None, Str(strip(PriceText(arg.price_str)))>>

C10_Witness ==
    /\ arg.price_str = Str(t_19)
    /\ arg.skip_rules = [placeholder_threshold |-> 19]
    /\ ret = <<None, None>>

====
